---- MODULE Spec2Model ----
(***************************************************************************)
(* Model of the scoring / clustering core of the vehicle test catalogue:   *)
(*   src/src/ai/similarity.py          vector similarity primitives        *)
(*   src/src/ai/recommender.py         TestRecommender (ensemble scorer)   *)
(*   src/src/ai/duplicate_detector.py  DuplicateDetector                   *)
(*                                                                         *)
(* Python floats are modelled as exact rationals <<num, den>> in lowest    *)
(* terms with den > 0, plus the value NaN == <<0, 0>>.  A Python dict is   *)
(* a TLA+ record whose DOMAIN is the set of keys that are present, so a    *)
(* missing key and an empty list are different inputs.                     *)
(***************************************************************************)
EXTENDS Integers, Sequences, FiniteSets, TLC

VARIABLES
    HDBSCAN_AVAILABLE,  \* duplicate_detector.py:9-13, fixed at import time
    zero_norm_cosine,   \* what scipy's cosine yields for a zero-norm vector
    recommender,        \* the TestRecommender instance (its constructor state)
    detector,           \* the DuplicateDetector instance, or NoDetector
    scenarios,          \* the batch of scenario dicts handed to the calls
    last                \* the last call: operation, arguments, outcome

vars == <<HDBSCAN_AVAILABLE, zero_norm_cosine, recommender, detector, scenarios, last>>

(***************************************************************************)
(* Bounds of the model.                                                    *)
(***************************************************************************)
MaxCandidates == 3  \* longest candidate list handed to recommend
MaxBatch == 4       \* longest scenario batch handed to the detector
MaxTopK == 4        \* largest top_k handed to recommend
MaxVectors == 3     \* most rows of the matrix handed to find_nearest_neighbors
MaxRerank == 3      \* longest candidate list handed to diversity_reranking
MaxK == 3           \* largest k handed to the two similarity functions
MaxIterations == 4  \* iterations of the re-ranking loop that are followed
MaxHistory == 11    \* longest execution history handed to compute_historical_score
MaxShared == 2      \* longest scenario batch that two callers share

(***************************************************************************)
(* Exact rational arithmetic standing for Python float arithmetic.         *)
(***************************************************************************)
RECURSIVE GCD(_, _)
GCD(a, b) == IF b = 0 THEN a ELSE GCD(b, a % b)

Abs(n) == IF n < 0 THEN -n ELSE n

NaN == <<0, 0>>

IsNaN(a) == a[2] = 0

Norm(n, d) ==
    LET g == GCD(Abs(n), Abs(d))
        s == IF d < 0 THEN -1 ELSE 1
    IN  IF d = 0 THEN NaN ELSE <<s * (n \div g), s * (d \div g)>>

Rat(n, d) == Norm(n, d)

Zero == <<0, 1>>
One == <<1, 1>>
Half == <<1, 2>>

RAdd(a, b) == IF IsNaN(a) \/ IsNaN(b) THEN NaN
              ELSE Norm(a[1] * b[2] + b[1] * a[2], a[2] * b[2])

RSub(a, b) == IF IsNaN(a) \/ IsNaN(b) THEN NaN
              ELSE Norm(a[1] * b[2] - b[1] * a[2], a[2] * b[2])

RMul(a, b) == IF IsNaN(a) \/ IsNaN(b) THEN NaN
              ELSE Norm(a[1] * b[1], a[2] * b[2])

\* IEEE comparisons: every comparison with NaN is false.
RLt(a, b) == ~IsNaN(a) /\ ~IsNaN(b) /\ a[1] * b[2] < b[1] * a[2]
RLe(a, b) == ~IsNaN(a) /\ ~IsNaN(b) /\ a[1] * b[2] <= b[1] * a[2]
RGt(a, b) == RLt(b, a)
RGe(a, b) == RLe(b, a)

\* Python's builtin min(a, b): a unless b < a.
PyMin(a, b) == IF RLt(b, a) THEN b ELSE a

RECURSIVE RSum(_)
RSum(s) == IF s = <<>> THEN Zero ELSE RAdd(Head(s), RSum(Tail(s)))

\* numpy.mean of a non-empty list of floats.
np_mean(s) == RMul(RSum(s), Rat(1, Len(s)))

InUnit(a) == RLe(Zero, a) /\ RLe(a, One)

(***************************************************************************)
(* Python dict and list helpers.                                           *)
(***************************************************************************)
Get(d, k, default) == IF k \in DOMAIN d THEN d[k] ELSE default

ToSet(s) == {s[i] : i \in DOMAIN s}

\* NoneVal stands for Python's None where a string-typed value may be absent.
NoneVal == "None"

(***************************************************************************)
(* similarity.py                                                           *)
(***************************************************************************)
RECURSIVE Dot(_, _)
Dot(u, v) == IF u = <<>> THEN 0 ELSE Head(u) * Head(v) + Dot(Tail(u), Tail(v))

\* Integer square root; the embeddings of the model have integer norms, so
\* the cosine of any two of them is an exact rational.
ISqrt(n) == CHOOSE r \in 0..n : r * r <= n /\ (r + 1) * (r + 1) > n

\* cosine_similarity(vec1, vec2) for vectors of equal length:
\* 1 - scipy cosine distance.  scipy does not special-case a zero norm: the
\* quotient is 0/0, and the value returned depends on the scipy build (NaN
\* where the distance is clipped with numpy, 1 where it is clamped with
\* max(0, min(d, 2)), which turns NaN into distance 0).  zn is that value.
cosine_similarity(vec1, vec2, zn) ==
    LET uv == Dot(vec1, vec2)
        uu == Dot(vec1, vec1)
        vv == Dot(vec2, vec2)
    IN  IF uu * vv = 0 THEN zn ELSE Rat(uv, ISqrt(uu * vv))

\* The vectors cannot be multiplied: numpy raises ValueError.
ShapeError(vec1, vec2) == Len(vec1) # Len(vec2)

(***************************************************************************)
(* recommender.py: TestRecommender                                         *)
(***************************************************************************)
\* self.weights
weights == [semantic |-> Rat(4, 10), graph |-> Rat(3, 10),
            rules |-> Rat(2, 10), historical |-> Rat(1, 10)]

\* Faulty variant of platform_rules: the EV/Battery entry expects two standards.
platform_rules_TwoStandards ==
    [EV  |-> [Battery |-> <<"UNECE_R100", "ISO_6469">>,
              Powertrain |-> <<"ISO_8854", "SAE_J1772">>,
              ADAS |-> <<"UNECE_R157", "ISO_26262">>],
     HEV |-> [Battery |-> <<"UNECE_R100", "ISO_6469">>,
              Powertrain |-> <<"WLTP_Class3b", "EPA_FTP75", "EURO_6E">>],
     ICE |-> [Powertrain |-> <<"WLTP_Class3b", "EPA_FTP75", "EURO_6E">>,
              Chassis |-> <<"UNECE_R13H", "FMVSS_135">>]]

\* self.platform_rules
platform_rules ==
    [EV  |-> [Battery |-> <<"UNECE_R100", "ISO_6469", "SAE_J2929">>,
              Powertrain |-> <<"ISO_8854", "SAE_J1772">>,
              ADAS |-> <<"UNECE_R157", "ISO_26262">>],
     HEV |-> [Battery |-> <<"UNECE_R100", "ISO_6469">>,
              Powertrain |-> <<"WLTP_Class3b", "EPA_FTP75", "EURO_6E">>],
     ICE |-> [Powertrain |-> <<"WLTP_Class3b", "EPA_FTP75", "EURO_6E">>,
              Chassis |-> <<"UNECE_R13H", "FMVSS_135">>]]

\* TestRecommender.__init__: the instance holds the optional pipeline.
TestRecommender_init(embedding_pipeline) ==
    [embedding_pipeline |-> embedding_pipeline, weights |-> weights,
     platform_rules |-> platform_rules]

compute_semantic_score(query_embedding, candidate_embedding, zn) ==
    cosine_similarity(query_embedding, candidate_embedding, zn)

\* The overlap term of compute_graph_proximity for one pair of lists.
ListJaccard(query_list, candidate_list) ==
    LET query_set == ToSet(query_list)
        candidate_set == ToSet(candidate_list)
        intersection == Cardinality(query_set \cap candidate_set)
        union == Cardinality(query_set \cup candidate_set)
    IN  IF union > 0 THEN Rat(intersection, union) ELSE Zero

\* Faulty variant of compute_graph_proximity: an overlap term is computed as
\* soon as one of the two lists is non-empty.
compute_graph_proximity_EitherNonEmpty(query_components, candidate_components, query_systems, candidate_systems, graph_data) ==
    LET s1 == IF query_components # <<>> \/ candidate_components # <<>>
              THEN <<ListJaccard(query_components, candidate_components)>>
              ELSE <<>>
        s2 == IF query_systems # <<>> \/ candidate_systems # <<>>
              THEN <<ListJaccard(query_systems, candidate_systems)>>
              ELSE <<>>
        s3 == IF "shortest_path_length" \in DOMAIN graph_data
              THEN <<RSub(One, PyMin(Rat(graph_data.shortest_path_length, 5), One))>>
              ELSE <<>>
        scores == s1 \o s2 \o s3
    IN  IF scores # <<>> THEN np_mean(scores) ELSE Half

\* graph_data is the candidate's dict of graph metrics; the empty dict also
\* stands for None (both are falsy in `if graph_data and ...`).
compute_graph_proximity(query_components, candidate_components, query_systems, candidate_systems, graph_data) ==
    LET s1 == IF query_components # <<>> /\ candidate_components # <<>>
              THEN <<ListJaccard(query_components, candidate_components)>>
              ELSE <<>>
        s2 == IF query_systems # <<>> /\ candidate_systems # <<>>
              THEN <<ListJaccard(query_systems, candidate_systems)>>
              ELSE <<>>
        s3 == IF "shortest_path_length" \in DOMAIN graph_data
              THEN <<RSub(One, PyMin(Rat(graph_data.shortest_path_length, 5), One))>>
              ELSE <<>>
        scores == s1 \o s2 \o s3
    IN  IF scores # <<>> THEN np_mean(scores) ELSE Half

\* Rule 2 of compute_rules_score: the loop over query_systems, in order.
\* Returns <<score added, rules fired>>.
RECURSIVE RegulatoryRule(_, _, _)
RegulatoryRule(query_platform, query_systems, candidate_standards) ==
    IF query_systems = <<>> THEN <<Zero, <<>>>>
    ELSE LET system == Head(query_systems)
             rest == RegulatoryRule(query_platform, Tail(query_systems),
                                    candidate_standards)
             table == platform_rules[query_platform]
         IN  IF system \in DOMAIN table
             THEN LET expected_standards == table[system]
                      matched == SelectSeq(expected_standards,
                                     LAMBDA s : s \in ToSet(candidate_standards))
                  IN  IF matched # <<>>
                      THEN <<RAdd(RMul(Rat(4, 10),
                                       Rat(Len(matched), Len(expected_standards))),
                                  rest[1]),
                             <<<<"Regulatory match", system, matched>>>> \o rest[2]>>
                      ELSE rest
             ELSE rest

\* compute_rules_score(query_spec, candidate) -> <<score, rules_fired>>
compute_rules_score(query_spec, candidate) ==
    LET query_platform == Get(query_spec, "platform", "")
        query_systems == Get(query_spec, "systems", <<>>)
        query_components == Get(query_spec, "components", <<>>)
        candidate_platforms == Get(candidate, "applicable_platforms", <<>>)
        candidate_systems == Get(candidate, "target_systems", <<>>)
        candidate_standards == Get(candidate, "regulatory_standards", <<>>)
        candidate_components == Get(candidate, "target_components", <<>>)
        r1 == IF query_platform \in ToSet(candidate_platforms)
              THEN <<Rat(3, 10), <<<<"Platform match", query_platform>>>>>>
              ELSE <<Zero, <<>>>>
        r2 == IF query_platform \in DOMAIN platform_rules
              THEN RegulatoryRule(query_platform, query_systems, candidate_standards)
              ELSE <<Zero, <<>>>>
        overlap3 == Cardinality(ToSet(query_systems) \cap ToSet(candidate_systems))
        r3 == IF query_systems # <<>> /\ candidate_systems # <<>> /\ overlap3 > 0
              THEN <<RMul(Rat(2, 10), Rat(overlap3, Len(query_systems))),
                     <<<<"System overlap", overlap3, Len(query_systems)>>>>>>
              ELSE <<Zero, <<>>>>
        overlap4 == Cardinality(ToSet(query_components) \cap ToSet(candidate_components))
        r4 == IF query_components # <<>> /\ overlap4 > 0
              THEN <<Rat(1, 10), <<<<"Component coverage", overlap4>>>>>>
              ELSE <<Zero, <<>>>>
        score == RAdd(RAdd(RAdd(r1[1], r2[1]), r3[1]), r4[1])
    IN  <<PyMin(score, One), r1[2] \o r2[2] \o r3[2] \o r4[2]>>

\* Faulty variant of PassedCount: every recorded run counts as passed.
PassedCount_CountsAll(historical) == Len(historical)

\* sum(1 for h in historical if h.get('passed', False))
PassedCount(historical) ==
    Cardinality({i \in DOMAIN historical : Get(historical[i], "passed", FALSE)})

\* Faulty variant of compute_historical_score: an untested scenario scores 0.
compute_historical_score_ZeroDefault(candidate) ==
    LET historical == Get(candidate, "historical_results", <<>>)
    IN  IF historical = <<>> THEN Zero
        ELSE LET pass_rate == Rat(PassedCount(historical), Len(historical))
                 confidence == PyMin(Rat(Len(historical), 10), One)
             IN  RAdd(RMul(pass_rate, confidence),
                      RMul(Half, RSub(One, confidence)))

compute_historical_score(candidate) ==
    LET historical == Get(candidate, "historical_results", <<>>)
    IN  IF historical = <<>> THEN Half
        ELSE LET pass_rate == Rat(PassedCount(historical), Len(historical))
                 confidence == PyMin(Rat(Len(historical), 10), One)
             IN  RAdd(RMul(pass_rate, confidence),
                      RMul(Half, RSub(One, confidence)))

\* The explanation notes of recommend (lines 322-330).
ExplainNotes(semantic_score, graph_score, rules_score, historical_score) ==
    (IF RGt(semantic_score, Rat(8, 10)) THEN <<"High semantic similarity">> ELSE <<>>)
    \o (IF RGt(graph_score, Rat(7, 10)) THEN <<"Strong graph connectivity">> ELSE <<>>)
    \o (IF RGt(rules_score, Rat(7, 10)) THEN <<"Matches multiple rules">> ELSE <<>>)
    \o (IF RGt(historical_score, Rat(8, 10)) THEN <<"High historical success rate">> ELSE <<>>)

\* final_score of recommend (lines 315-320).
FinalScore(semantic_score, graph_score, rules_score, historical_score) ==
    RAdd(RAdd(RAdd(RMul(weights.semantic, semantic_score),
                   RMul(weights.graph, graph_score)),
              RMul(weights.rules, rules_score)),
         RMul(weights.historical, historical_score))

\* query_embedding = <<>> stands for None (no pipeline, or no description).
UsesEmbedding(query_embedding, candidate) ==
    query_embedding # <<>> /\ "embedding" \in DOMAIN candidate

\* The body of the loop of recommend for one candidate (lines 277-344); it is
\* evaluated only for a candidate on which compute_semantic_score does not raise.
ScoreCandidate(query_spec, query_embedding, candidate, graph_data, zn) ==
    LET used == UsesEmbedding(query_embedding, candidate)
        semantic_score == IF used
                          THEN compute_semantic_score(query_embedding, candidate.embedding, zn)
                          ELSE Zero
        graph_score == compute_graph_proximity(
                           Get(query_spec, "components", <<>>),
                           Get(candidate, "target_components", <<>>),
                           Get(query_spec, "systems", <<>>),
                           Get(candidate, "target_systems", <<>>),
                           Get(graph_data, Get(candidate, "scenario_id", NoneVal), <<>>))
        rules == compute_rules_score(query_spec, candidate)
        historical_score == compute_historical_score(candidate)
        graph_etc == [graph |-> graph_score, rules |-> rules[1],
                      historical |-> historical_score]
    IN  [scenario_id |-> Get(candidate, "scenario_id", NoneVal),
         test_name |-> Get(candidate, "test_name", <<>>),
         test_type |-> Get(candidate, "test_type", NoneVal),
         score |-> FinalScore(semantic_score, graph_score, rules[1], historical_score),
         explain |-> [rules_fired |-> rules[2],
                      scores |-> IF used
                                 THEN [semantic |-> semantic_score] @@ graph_etc
                                 ELSE graph_etc,
                      notes |-> ExplainNotes(semantic_score, graph_score,
                                             rules[1], historical_score)],
         metadata |-> [k \in {"complexity_score", "risk_level",
                              "estimated_duration_hours", "estimated_cost_gbp"}
                       |-> Get(candidate, k, NoneVal)]]

\* list.sort(key=score, reverse=True): a stable sort that uses only `<`.  An
\* element moves in front of the elements whose score is strictly smaller.
RECURSIVE InsertDesc(_, _)
InsertDesc(sorted, x) ==
    IF sorted = <<>> THEN <<x>>
    ELSE LET l == sorted[Len(sorted)]
         IN  IF RLt(l.score, x.score)
             THEN Append(InsertDesc(SubSeq(sorted, 1, Len(sorted) - 1), x), l)
             ELSE Append(sorted, x)

RECURSIVE SortByScoreDesc(_)
SortByScoreDesc(recs) ==
    IF recs = <<>> THEN <<>>
    ELSE InsertDesc(SortByScoreDesc(SubSeq(recs, 1, Len(recs) - 1)), recs[Len(recs)])

\* Faulty variant of SlicePrefix: the slice keeps one element too many.
SlicePrefix_OffByOne(s, k) ==
    SubSeq(s, 1, IF k + 1 < Len(s) THEN k + 1 ELSE Len(s))

\* Python's s[:k].
SlicePrefix(s, k) ==
    IF k >= 0 THEN SubSeq(s, 1, IF k < Len(s) THEN k ELSE Len(s))
    ELSE SubSeq(s, 1, IF Len(s) + k > 0 THEN Len(s) + k ELSE 0)

\* Indices of the candidates on which cosine_similarity raises ValueError.
RaisingCandidates(query_embedding, candidates) ==
    {i \in DOMAIN candidates :
        /\ UsesEmbedding(query_embedding, candidates[i])
        /\ ShapeError(query_embedding, candidates[i].embedding)}

\* TestRecommender.recommend, given the vector the pipeline returned.
recommend(query_spec, candidates, top_k, graph_data, query_embedding, zn) ==
    IF RaisingCandidates(query_embedding, candidates) # {}
    THEN [status |-> "ValueError"]
    ELSE LET recommendations ==
                 [i \in DOMAIN candidates |->
                     ScoreCandidate(query_spec, query_embedding, candidates[i],
                                    graph_data, zn)]
         IN  [status |-> "ok",
              result |-> SlicePrefix(SortByScoreDesc(recommendations), top_k)]

(***************************************************************************)
(* duplicate_detector.py                                                   *)
(***************************************************************************)
\* Faulty variant of jaccard_similarity: two empty sets are given 0.
jaccard_similarity_EmptyZero(set1, set2) ==
    LET intersection == Cardinality(set1 \cap set2)
        union == Cardinality(set1 \cup set2)
    IN  IF union > 0 THEN Rat(intersection, union) ELSE Zero

jaccard_similarity(set1, set2) ==
    IF set1 = {} /\ set2 = {} THEN One
    ELSE LET intersection == Cardinality(set1 \cap set2)
             union == Cardinality(set1 \cup set2)
         IN  IF union > 0 THEN Rat(intersection, union) ELSE Zero

\* str.lower() on one word: the words written with capitals map to their
\* lower-case form, every other word of the model is lower-case already.
Lower(word) ==
    CASE word = "Battery" -> "battery"
      [] word = "Thermal" -> "thermal"
      [] word = "Test" -> "test"
      [] OTHER -> word

\* text.lower().split() on a text given as its whitespace-separated words.
Tokens(text) == {Lower(text[i]) : i \in DOMAIN text}

text_jaccard_similarity(text1, text2) ==
    jaccard_similarity(Tokens(text1), Tokens(text2))

\* Faulty variant of DuplicateDetector_init: the availability check is missing.
DuplicateDetector_init_NoCheck(available, min_cluster_size, min_samples, similarity_threshold) ==
    [status |-> "ok",
     self |-> [min_cluster_size |-> min_cluster_size,
               min_samples |-> min_samples,
               similarity_threshold |-> similarity_threshold]]

\* DuplicateDetector.__init__: raises ImportError without hdbscan.
DuplicateDetector_init(available, min_cluster_size, min_samples, similarity_threshold) ==
    IF ~available
    THEN [status |-> "ImportError"]
    ELSE [status |-> "ok",
          self |-> [min_cluster_size |-> min_cluster_size,
                    min_samples |-> min_samples,
                    similarity_threshold |-> similarity_threshold]]

\* The quality score of _select_canonical (lines 194-205).
CanonicalScore(scenario) ==
    LET historical == Get(scenario, "historical_results", <<>>)
        execution_count == Len(historical)
        pass_rate == IF historical # <<>>
                     THEN Rat(PassedCount(historical), Len(historical))
                     ELSE Half
        component_count == Len(Get(scenario, "target_components", <<>>))
    IN  RAdd(RAdd(RMul(Rat(execution_count, 1), Rat(4, 10)),
                  RMul(pass_rate, Rat(3, 10))),
             RMul(Rat(component_count, 1), Rat(3, 10)))

\* Faulty variant of SelectCanonicalLoop: `>=` for `>`, the last maximum wins.
RECURSIVE SelectCanonicalLoop_LastMax(_, _, _, _)
SelectCanonicalLoop_LastMax(members, i, best_scenario, best_score) ==
    IF i > Len(members) THEN best_scenario
    ELSE LET score == CanonicalScore(members[i])
         IN  IF RGe(score, best_score)
             THEN SelectCanonicalLoop_LastMax(members, i + 1, members[i], score)
             ELSE SelectCanonicalLoop_LastMax(members, i + 1, best_scenario, best_score)

\* The loop of _select_canonical from position i on.
RECURSIVE SelectCanonicalLoop(_, _, _, _)
SelectCanonicalLoop(members, i, best_scenario, best_score) ==
    IF i > Len(members) THEN best_scenario
    ELSE LET score == CanonicalScore(members[i])
         IN  IF RGt(score, best_score)
             THEN SelectCanonicalLoop(members, i + 1, members[i], score)
             ELSE SelectCanonicalLoop(members, i + 1, best_scenario, best_score)

select_canonical(members) ==
    IF members = <<>> THEN <<>>
    ELSE SelectCanonicalLoop(members, 1, members[1], Rat(-1, 1))

\* Faulty variant of compute_detailed_similarity: the weights of the name and
\* of the components are exchanged.
compute_detailed_similarity_NameHeavy(scenario1, scenario2) ==
    LET name == text_jaccard_similarity(Get(scenario1, "test_name", <<>>),
                                        Get(scenario2, "test_name", <<>>))
        components == jaccard_similarity(ToSet(Get(scenario1, "target_components", <<>>)),
                                         ToSet(Get(scenario2, "target_components", <<>>)))
        systems == jaccard_similarity(ToSet(Get(scenario1, "target_systems", <<>>)),
                                      ToSet(Get(scenario2, "target_systems", <<>>)))
        test_type == IF Get(scenario1, "test_type", NoneVal) = Get(scenario2, "test_type", NoneVal)
                     THEN One ELSE Zero
        platforms == jaccard_similarity(ToSet(Get(scenario1, "applicable_platforms", <<>>)),
                                        ToSet(Get(scenario2, "applicable_platforms", <<>>)))
        standards == jaccard_similarity(ToSet(Get(scenario1, "regulatory_standards", <<>>)),
                                        ToSet(Get(scenario2, "regulatory_standards", <<>>)))
    IN  [name |-> name, components |-> components, systems |-> systems,
         test_type |-> test_type, platforms |-> platforms, standards |-> standards,
         overall |-> RAdd(RAdd(RAdd(RAdd(RAdd(RMul(name, Rat(25, 100)),
                                              RMul(components, Rat(15, 100))),
                                         RMul(systems, Rat(20, 100))),
                                    RMul(test_type, Rat(15, 100))),
                               RMul(platforms, Rat(10, 100))),
                          RMul(standards, Rat(15, 100)))]

\* _compute_detailed_similarity(scenario1, scenario2)
compute_detailed_similarity(scenario1, scenario2) ==
    LET name == text_jaccard_similarity(Get(scenario1, "test_name", <<>>),
                                        Get(scenario2, "test_name", <<>>))
        components == jaccard_similarity(ToSet(Get(scenario1, "target_components", <<>>)),
                                         ToSet(Get(scenario2, "target_components", <<>>)))
        systems == jaccard_similarity(ToSet(Get(scenario1, "target_systems", <<>>)),
                                      ToSet(Get(scenario2, "target_systems", <<>>)))
        test_type == IF Get(scenario1, "test_type", NoneVal) = Get(scenario2, "test_type", NoneVal)
                     THEN One ELSE Zero
        platforms == jaccard_similarity(ToSet(Get(scenario1, "applicable_platforms", <<>>)),
                                        ToSet(Get(scenario2, "applicable_platforms", <<>>)))
        standards == jaccard_similarity(ToSet(Get(scenario1, "regulatory_standards", <<>>)),
                                        ToSet(Get(scenario2, "regulatory_standards", <<>>)))
    IN  [name |-> name, components |-> components, systems |-> systems,
         test_type |-> test_type, platforms |-> platforms, standards |-> standards,
         overall |-> RAdd(RAdd(RAdd(RAdd(RAdd(RMul(name, Rat(15, 100)),
                                              RMul(components, Rat(25, 100))),
                                         RMul(systems, Rat(20, 100))),
                                    RMul(test_type, Rat(15, 100))),
                               RMul(platforms, Rat(10, 100))),
                          RMul(standards, Rat(15, 100)))]

\* Faulty variant of estimate_savings: the canonical's recorded duration and
\* cost are used where it records them.
estimate_savings_FromCanonical(canonical, duplicates) ==
    LET reduction_factor == Rat(8, 10)
        avg_duration == Rat(Get(canonical, "estimated_duration_hours", 10), 1)
        avg_cost == Rat(Get(canonical, "estimated_cost_gbp", 5000), 1)
        n == Len(duplicates)
    IN  [time_saved_hours |-> RMul(RMul(Rat(n, 1), avg_duration), reduction_factor),
         cost_saved_gbp |-> RMul(RMul(Rat(n, 1), avg_cost), reduction_factor),
         tests_eliminated |-> n,
         reduction_percent |-> RMul(Rat(n, n + 1), Rat(100, 1))]

\* _estimate_savings(canonical, duplicates)
estimate_savings(canonical, duplicates) ==
    LET reduction_factor == Rat(8, 10)
        avg_duration == Rat(10, 1)
        avg_cost == Rat(5000, 1)
        n == Len(duplicates)
    IN  [time_saved_hours |-> RMul(RMul(Rat(n, 1), avg_duration), reduction_factor),
         cost_saved_gbp |-> RMul(RMul(Rat(n, 1), avg_cost), reduction_factor),
         tests_eliminated |-> n,
         reduction_percent |-> RMul(Rat(n, n + 1), Rat(100, 1))]

\* The entry of cluster_duplicates for one scenario that passed the threshold.
DuplicateEntry(scenario, similarity) ==
    [scenario_id |-> scenario.scenario_id,
     test_name |-> scenario.test_name,
     similarity_to_canonical |-> similarity.overall,
     similarity_breakdown |-> similarity,
     recommendation |-> IF RGt(similarity.overall, Rat(95, 100))
                        THEN "consolidate" ELSE "review"]

\* Faulty variant of IsListedDuplicate: `>` for `>=` against the threshold.
IsListedDuplicate_Strict(self, canonical, scenario) ==
    /\ scenario.scenario_id # canonical.scenario_id
    /\ RGt(compute_detailed_similarity(canonical, scenario).overall,
           self.similarity_threshold)

\* Whether the inner loop of _identify_duplicates_in_clusters lists scenario.
IsListedDuplicate(self, canonical, scenario) ==
    /\ scenario.scenario_id # canonical.scenario_id
    /\ RGe(compute_detailed_similarity(canonical, scenario).overall,
           self.similarity_threshold)

\* Faulty variant of ClusterDuplicates: the canonical is not skipped.
ClusterDuplicates_KeepCanonical(self, cluster) ==
    LET canonical == cluster.canonical
        kept == SelectSeq(cluster.scenarios,
                          LAMBDA sc :
                              RGe(compute_detailed_similarity(canonical, sc).overall,
                                  self.similarity_threshold))
    IN  [i \in DOMAIN kept |->
            DuplicateEntry(kept[i], compute_detailed_similarity(canonical, kept[i]))]

\* The inner loop of _identify_duplicates_in_clusters over one cluster.
ClusterDuplicates(self, cluster) ==
    LET canonical == cluster.canonical
        kept == SelectSeq(cluster.scenarios,
                          LAMBDA sc : IsListedDuplicate(self, canonical, sc))
    IN  [i \in DOMAIN kept |->
            DuplicateEntry(kept[i], compute_detailed_similarity(canonical, kept[i]))]

RECURSIVE identify_duplicates_in_clusters(_, _)
identify_duplicates_in_clusters(self, clusters) ==
    IF clusters = <<>> THEN <<>>
    ELSE LET cluster == Head(clusters)
             rest == identify_duplicates_in_clusters(self, Tail(clusters))
             cluster_duplicates == ClusterDuplicates(self, cluster)
         IN  IF Len(cluster.scenarios) < 2 \/ cluster_duplicates = <<>>
             THEN rest
             ELSE <<[cluster_id |-> cluster.cluster_id,
                     canonical_id |-> cluster.canonical.scenario_id,
                     canonical_name |-> cluster.canonical.test_name,
                     duplicates |-> cluster_duplicates,
                     potential_savings |->
                         estimate_savings(cluster.canonical, cluster_duplicates)]>>
                  \o rest

\* The index pairs (i, j), i < j, in the order the two for loops of
\* find_similar_pairs visit them.
RECURSIVE PairsFrom(_, _, _)
PairsFrom(i, j, n) ==
    IF i > n THEN <<>>
    ELSE IF j > n THEN PairsFrom(i + 1, i + 2, n)
    ELSE <<<<i, j>>>> \o PairsFrom(i, j + 1, n)

\* Faulty variant of PairQualifies: `>` for `>=`.
PairQualifies_Strict(similarity, threshold) == RGt(similarity.overall, threshold)

\* The test of find_similar_pairs (line 385).
PairQualifies(similarity, threshold) == RGe(similarity.overall, threshold)

\* The entry appended for one pair (lines 386-393).
SimilarPair(scenario1, scenario2, similarity) ==
    [scenario1_id |-> scenario1.scenario_id, scenario1_name |-> scenario1.test_name,
     scenario2_id |-> scenario2.scenario_id, scenario2_name |-> scenario2.test_name,
     similarity |-> similarity.overall, similarity_breakdown |-> similarity]

\* similar_pairs.sort(key=similarity, reverse=True): stable, uses only `<`.
RECURSIVE InsertBySimilarity(_, _)
InsertBySimilarity(sorted, x) ==
    IF sorted = <<>> THEN <<x>>
    ELSE LET l == sorted[Len(sorted)]
         IN  IF RLt(l.similarity, x.similarity)
             THEN Append(InsertBySimilarity(SubSeq(sorted, 1, Len(sorted) - 1), x), l)
             ELSE Append(sorted, x)

RECURSIVE SortBySimilarityDesc(_)
SortBySimilarityDesc(pairs) ==
    IF pairs = <<>> THEN <<>>
    ELSE InsertBySimilarity(SortBySimilarityDesc(SubSeq(pairs, 1, Len(pairs) - 1)),
                            pairs[Len(pairs)])

\* DuplicateDetector.find_similar_pairs.  The entry of a qualifying pair reads
\* scenario_id and test_name with [], which raises KeyError on a missing key.
find_similar_pairs(self, batch, threshold) ==
    LET visited == PairsFrom(1, 2, Len(batch))
        qualifying ==
            SelectSeq(visited,
                      LAMBDA p : PairQualifies(compute_detailed_similarity(batch[p[1]], batch[p[2]]),
                                               threshold))
    IN  IF \E n \in DOMAIN qualifying : \E m \in {1, 2} :
               ~({"scenario_id", "test_name"} \subseteq DOMAIN batch[qualifying[n][m]])
        THEN [status |-> "KeyError"]
        ELSE [status |-> "ok",
              result |-> SortBySimilarityDesc(
                  [n \in DOMAIN qualifying |->
                      SimilarPair(batch[qualifying[n][1]], batch[qualifying[n][2]],
                                  compute_detailed_similarity(batch[qualifying[n][1]],
                                                              batch[qualifying[n][2]]))])]

\* hdbscan.HDBSCAN(...).fit_predict on n points (an external library): one
\* label per point, -1 for noise, the clusters numbered 0, 1, ... with no gap,
\* and every cluster of at least min_cluster_size points.
ClusterLabelings(n, min_cluster_size) ==
    {l \in [1..n -> -1..((n \div min_cluster_size) - 1)] :
        \A c \in 0..((n \div min_cluster_size) - 1) :
            LET size == Cardinality({i \in 1..n : l[i] = c})
            IN  /\ size = 0 \/ size >= min_cluster_size
                /\ size > 0 => \A b \in 0..c : \E i \in 1..n : l[i] = b}

\* The scenarios of valid_scenarios whose label is c, in their order.
RECURSIVE MembersOf(_, _, _)
MembersOf(valid_scenarios, cluster_labels, c) ==
    IF valid_scenarios = <<>> THEN <<>>
    ELSE (IF Head(cluster_labels) = c THEN <<Head(valid_scenarios)>> ELSE <<>>)
         \o MembersOf(Tail(valid_scenarios), Tail(cluster_labels), c)

\* Faulty variant of LabelOrder: label -1 is kept as a cluster key.
RECURSIVE LabelOrder_KeepNoise(_, _)
LabelOrder_KeepNoise(cluster_labels, seen) ==
    IF cluster_labels = <<>> THEN <<>>
    ELSE LET c == Head(cluster_labels)
         IN  IF c \in seen
             THEN LabelOrder_KeepNoise(Tail(cluster_labels), seen)
             ELSE <<c>> \o LabelOrder_KeepNoise(Tail(cluster_labels), seen \cup {c})

\* The keys of clusters_dict in insertion order: the labels other than -1 in
\* the order of their first occurrence.
RECURSIVE LabelOrder(_, _)
LabelOrder(cluster_labels, seen) ==
    IF cluster_labels = <<>> THEN <<>>
    ELSE LET c == Head(cluster_labels)
         IN  IF c = -1 \/ c \in seen
             THEN LabelOrder(Tail(cluster_labels), seen)
             ELSE <<c>> \o LabelOrder(Tail(cluster_labels), seen \cup {c})

\* Faulty variant of BuildClusters: the canonical is selected among all the
\* scenarios with an embedding.
BuildClusters_CanonicalFromAll(valid_scenarios, cluster_labels) ==
    LET ids == LabelOrder(cluster_labels, {})
    IN  [k \in DOMAIN ids |->
            LET members == MembersOf(valid_scenarios, cluster_labels, ids[k])
            IN  [cluster_id |-> ids[k], size |-> Len(members),
                 scenarios |-> members, canonical |-> select_canonical(valid_scenarios)]]

\* The clusters list before it is sorted (lines 145-153).
BuildClusters(valid_scenarios, cluster_labels) ==
    LET ids == LabelOrder(cluster_labels, {})
    IN  [k \in DOMAIN ids |->
            LET members == MembersOf(valid_scenarios, cluster_labels, ids[k])
            IN  [cluster_id |-> ids[k], size |-> Len(members),
                 scenarios |-> members, canonical |-> select_canonical(members)]]

\* clusters.sort(key=size, reverse=True): stable, larger clusters first.
RECURSIVE InsertBySize(_, _)
InsertBySize(sorted, x) ==
    IF sorted = <<>> THEN <<x>>
    ELSE LET l == sorted[Len(sorted)]
         IN  IF l.size < x.size
             THEN Append(InsertBySize(SubSeq(sorted, 1, Len(sorted) - 1), x), l)
             ELSE Append(sorted, x)

RECURSIVE SortBySizeDesc(_)
SortBySizeDesc(clusters) ==
    IF clusters = <<>> THEN <<>>
    ELSE InsertBySize(SortBySizeDesc(SubSeq(clusters, 1, Len(clusters) - 1)),
                      clusters[Len(clusters)])

\* The scenarios that carry an embedding (lines 110-116).
ValidScenarios(batch) == SelectSeq(batch, LAMBDA sc : "embedding" \in DOMAIN sc)

\* numpy.array(embeddings) on vectors of different lengths: no matrix can be
\* built and the call ends with ValueError.
Ragged(valid_scenarios) ==
    \E i, j \in DOMAIN valid_scenarios :
        Len(valid_scenarios[i].embedding) # Len(valid_scenarios[j].embedding)

\* Whether detect_duplicates_by_embedding reaches fit_predict on this batch.
ReachesClustering(self, batch) ==
    /\ batch # <<>>
    /\ Len(ValidScenarios(batch)) >= self.min_cluster_size
    /\ ~Ragged(ValidScenarios(batch))

\* Faulty variant of detect_duplicates_by_embedding: the matrix is built before
\* the number of embeddings is compared with min_cluster_size.
detect_duplicates_by_embedding_LateSizeCheck(self, batch, cluster_labels) ==
    LET valid_scenarios == ValidScenarios(batch)
    IN  IF batch = <<>>
        THEN [status |-> "ok", result |-> [clusters |-> <<>>, duplicates |-> <<>>]]
        ELSE IF Ragged(valid_scenarios)
        THEN [status |-> "ValueError"]
        ELSE IF Len(valid_scenarios) < self.min_cluster_size
        THEN [status |-> "ok", result |-> [clusters |-> <<>>, duplicates |-> <<>>]]
        ELSE LET noise_points == MembersOf(valid_scenarios, cluster_labels, -1)
                 clusters == SortBySizeDesc(BuildClusters(valid_scenarios, cluster_labels))
             IN  [status |-> "ok",
                  result |-> [clusters |-> clusters,
                              duplicates |-> identify_duplicates_in_clusters(self, clusters),
                              noise_points |-> noise_points,
                              n_clusters |-> Len(clusters),
                              n_noise |-> Len(noise_points)]]

\* DuplicateDetector.detect_duplicates_by_embedding, given the labels that
\* fit_predict returned.
detect_duplicates_by_embedding(self, batch, cluster_labels) ==
    LET valid_scenarios == ValidScenarios(batch)
    IN  IF batch = <<>>
        THEN [status |-> "ok", result |-> [clusters |-> <<>>, duplicates |-> <<>>]]
        ELSE IF Len(valid_scenarios) < self.min_cluster_size
        THEN [status |-> "ok", result |-> [clusters |-> <<>>, duplicates |-> <<>>]]
        ELSE IF Ragged(valid_scenarios)
        THEN [status |-> "ValueError"]
        ELSE LET noise_points == MembersOf(valid_scenarios, cluster_labels, -1)
                 clusters == SortBySizeDesc(BuildClusters(valid_scenarios, cluster_labels))
             IN  [status |-> "ok",
                  result |-> [clusters |-> clusters,
                              duplicates |-> identify_duplicates_in_clusters(self, clusters),
                              noise_points |-> noise_points,
                              n_clusters |-> Len(clusters),
                              n_noise |-> Len(noise_points)]]

(***************************************************************************)
(* similarity.py: nearest neighbours.  Positions in a list are 1, 2, ...   *)
(* here, so the index i of the code is position i + 1.                     *)
(***************************************************************************)
\* sklearn's cosine_similarity for one pair of rows: both rows are normalised
\* first and a row of zero norm is left as it is, so its similarity is 0.
SklearnCosine(u, v) ==
    LET uu == Dot(u, u)
        vv == Dot(v, v)
    IN  IF uu * vv = 0 THEN Zero ELSE Rat(Dot(u, v), ISqrt(uu * vv))

batch_cosine_similarity(query_vector, vectors) ==
    [i \in DOMAIN vectors |-> SklearnCosine(query_vector, vectors[i])]

Diff(u, v) == [i \in DOMAIN u |-> u[i] - v[i]]

RECURSIVE SumAbs(_)
SumAbs(u) == IF u = <<>> THEN 0 ELSE Abs(Head(u)) + SumAbs(Tail(u))

\* np.linalg.norm(vectors - query_vector, axis=1); the vectors of the model
\* lie at integer distances from each other, so the root is exact.
EuclideanDistances(query_vector, vectors) ==
    [i \in DOMAIN vectors |->
        LET d == Diff(vectors[i], query_vector) IN Rat(ISqrt(Dot(d, d)), 1)]

\* np.sum(np.abs(vectors - query_vector), axis=1)
ManhattanDistances(query_vector, vectors) ==
    [i \in DOMAIN vectors |-> Rat(SumAbs(Diff(vectors[i], query_vector)), 1)]

\* The array find_nearest_neighbors sorts for a supported metric.
MetricValues(query_vector, vectors, metric) ==
    CASE metric = "cosine" -> batch_cosine_similarity(query_vector, vectors)
      [] metric = "euclidean" -> EuclideanDistances(query_vector, vectors)
      [] metric = "manhattan" -> ManhattanDistances(query_vector, vectors)
      [] OTHER -> <<>>

\* np.argsort(values) with the default sort, which is not stable: any order
\* of the positions in which the values do not decrease.
Argsorts(values) ==
    {p \in [DOMAIN values -> DOMAIN values] :
        /\ \A i, j \in DOMAIN values : i # j => p[i] # p[j]
        /\ \A i, j \in DOMAIN values : i < j => ~RLt(values[p[j]], values[p[i]])}

\* s[::-1]
Reverse(s) == [i \in DOMAIN s |-> s[Len(s) + 1 - i]]

\* Faulty variant of find_nearest_neighbors: an unknown metric gives an empty result.
find_nearest_neighbors_NoRaise(query_vector, vectors, k, metric, order) ==
    IF metric = "cosine"
    THEN IF vectors = <<>>
         THEN [status |-> "ValueError"]
         ELSE LET similarities == batch_cosine_similarity(query_vector, vectors)
                  top_k_indices == SlicePrefix(Reverse(order), k)
              IN  [status |-> "ok", indices |-> top_k_indices,
                   scores |-> [i \in DOMAIN top_k_indices |->
                                  similarities[top_k_indices[i]]]]
    ELSE IF metric = "euclidean"
    THEN LET distances == EuclideanDistances(query_vector, vectors)
             top_k_indices == SlicePrefix(order, k)
         IN  [status |-> "ok", indices |-> top_k_indices,
              scores |-> [i \in DOMAIN top_k_indices |-> distances[top_k_indices[i]]]]
    ELSE IF metric = "manhattan"
    THEN LET distances == ManhattanDistances(query_vector, vectors)
             top_k_indices == SlicePrefix(order, k)
         IN  [status |-> "ok", indices |-> top_k_indices,
              scores |-> [i \in DOMAIN top_k_indices |-> distances[top_k_indices[i]]]]
    ELSE [status |-> "ok", indices |-> <<>>, scores |-> <<>>]

\* find_nearest_neighbors, given the order np.argsort returned.  The vectors
\* are the rows of an N x dim matrix.  With cosine and no row, sklearn rejects
\* the matrix (it requires at least one sample) and the call ends with
\* ValueError; the other two metrics work on the empty matrix.
find_nearest_neighbors(query_vector, vectors, k, metric, order) ==
    IF metric = "cosine"
    THEN IF vectors = <<>>
         THEN [status |-> "ValueError"]
         ELSE LET similarities == batch_cosine_similarity(query_vector, vectors)
                  top_k_indices == SlicePrefix(Reverse(order), k)
              IN  [status |-> "ok", indices |-> top_k_indices,
                   scores |-> [i \in DOMAIN top_k_indices |->
                                  similarities[top_k_indices[i]]]]
    ELSE IF metric = "euclidean"
    THEN LET distances == EuclideanDistances(query_vector, vectors)
             top_k_indices == SlicePrefix(order, k)
         IN  [status |-> "ok", indices |-> top_k_indices,
              scores |-> [i \in DOMAIN top_k_indices |-> distances[top_k_indices[i]]]]
    ELSE IF metric = "manhattan"
    THEN LET distances == ManhattanDistances(query_vector, vectors)
             top_k_indices == SlicePrefix(order, k)
         IN  [status |-> "ok", indices |-> top_k_indices,
              scores |-> [i \in DOMAIN top_k_indices |-> distances[top_k_indices[i]]]]
    ELSE [status |-> "ValueError"]

(***************************************************************************)
(* similarity.py: diversity_reranking.  A candidate is the pair            *)
(* <<item, relevance>>; embeddings holds one row per candidate.  The state *)
(* of a call is the record st of its local variables; the while loop runs  *)
(* one iteration per step.                                                 *)
(***************************************************************************)
\* Python's max(values) on a non-empty list: the first element, replaced by
\* each later element that compares greater.
RECURSIVE PyMaxFrom(_, _)
PyMaxFrom(m, rest) ==
    IF rest = <<>> THEN m
    ELSE PyMaxFrom(IF RGt(Head(rest), m) THEN Head(rest) ELSE m, Tail(rest))

PyMax(values) == PyMaxFrom(Head(values), Tail(values))

\* The combined score of candidate idx in one pass of the for loop
\* (lines 251-263); selected_indices is never empty there.
MMRScore(st, idx, zn) ==
    LET relevance == st.candidates[idx][2]
        diversities == [n \in DOMAIN st.selected_indices |->
                           cosine_similarity(st.embeddings[idx],
                                             st.embeddings[st.selected_indices[n]], zn)]
        diversity == RSub(One, PyMax(diversities))
    IN  RAdd(RMul(st.lambda_param, relevance),
             RMul(RSub(One, st.lambda_param), diversity))

\* The for loop over remaining (lines 250-267).  best_idx = 0 stands for None;
\* while it is None best_score is -inf, which every score but NaN exceeds.
RECURSIVE BestIdxLoop(_, _, _, _, _)
BestIdxLoop(st, rest, best_idx, best_score, zn) ==
    IF rest = <<>> THEN best_idx
    ELSE LET idx == Head(rest)
             score == MMRScore(st, idx, zn)
             better == IF best_idx = 0 THEN ~IsNaN(score) ELSE RGt(score, best_score)
         IN  IF better
             THEN BestIdxLoop(st, Tail(rest), idx, score, zn)
             ELSE BestIdxLoop(st, Tail(rest), best_idx, best_score, zn)

\* list.remove(x) on a list without repetitions.
ListRemove(s, x) == SelectSeq(s, LAMBDA y : y # x)

\* Faulty variant of DiversityEnter: the pass-through drops the last candidate.
DiversityEnter_DropLast(candidates, embeddings, lambda_param, k) ==
    IF Len(candidates) <= k
    THEN [pc |-> "done", status |-> "ok", result |-> SlicePrefix(candidates, -1)]
    ELSE [pc |-> "while", candidates |-> candidates, embeddings |-> embeddings,
          lambda_param |-> lambda_param, k |-> k,
          selected |-> <<candidates[1]>>, selected_indices |-> <<1>>,
          remaining |-> [i \in 1..(Len(candidates) - 1) |-> i + 1],
          iterations |-> 0]

\* diversity_reranking up to the while loop (lines 233-243): the early return,
\* or the first candidate selected.
DiversityEnter(candidates, embeddings, lambda_param, k) ==
    IF Len(candidates) <= k
    THEN [pc |-> "done", status |-> "ok", result |-> SlicePrefix(candidates, k)]
    ELSE [pc |-> "while", candidates |-> candidates, embeddings |-> embeddings,
          lambda_param |-> lambda_param, k |-> k,
          selected |-> <<candidates[1]>>, selected_indices |-> <<1>>,
          remaining |-> [i \in 1..(Len(candidates) - 1) |-> i + 1],
          iterations |-> 0]

\* The condition of the while loop (line 246).
DiversityLoopCondition(st) == Len(st.selected) < st.k /\ st.remaining # <<>>

\* One iteration of the while loop (lines 247-272).  iterations counts them.
DiversityIterate(st, zn) ==
    LET best_idx == BestIdxLoop(st, st.remaining, 0, Zero, zn)
    IN  IF best_idx # 0
        THEN [st EXCEPT !.selected = Append(@, st.candidates[best_idx]),
                        !.selected_indices = Append(@, best_idx),
                        !.remaining = ListRemove(@, best_idx),
                        !.iterations = @ + 1]
        ELSE [st EXCEPT !.iterations = @ + 1]

\* The return after the loop (line 274).
DiversityExit(st) == [pc |-> "done", status |-> "ok", result |-> st.selected] @@ st

(***************************************************************************)
(* Inputs.  Scenario dicts as the external store hands them over; a key    *)
(* that is not written is missing from the dict.  Texts are the sequences  *)
(* of their whitespace-separated words.                                    *)
(***************************************************************************)
S1 == [scenario_id |-> "s1", test_name |-> <<"battery", "thermal", "test">>,
       test_type |-> "safety", applicable_platforms |-> <<"EV">>,
       target_systems |-> <<"Battery">>, target_components |-> <<"HV_Battery">>,
       regulatory_standards |-> <<"UNECE_R100", "ISO_6469">>,
       historical_results |-> <<[passed |-> TRUE], [passed |-> TRUE]>>,
       embedding |-> <<1, 0>>, complexity_score |-> 5, risk_level |-> "high",
       estimated_duration_hours |-> 24, estimated_cost_gbp |-> 5000]

S2 == [scenario_id |-> "s2", test_name |-> <<"battery", "thermal">>,
       test_type |-> "safety", applicable_platforms |-> <<"EV">>,
       target_systems |-> <<"Battery">>, target_components |-> <<"HV_Battery">>,
       regulatory_standards |-> <<"UNECE_R100", "ISO_6469">>,
       historical_results |-> <<[passed |-> TRUE]>>,
       embedding |-> <<3, 4>>, estimated_duration_hours |-> 12]

S3 == [scenario_id |-> "s3", test_name |-> <<"Battery", "Thermal", "Test">>,
       test_type |-> "safety", applicable_platforms |-> <<"EV">>,
       target_systems |-> <<"Battery">>, target_components |-> <<"HV_Battery">>,
       regulatory_standards |-> <<"UNECE_R100", "ISO_6469">>,
       historical_results |-> <<[passed |-> TRUE]>>,
       embedding |-> <<-1, 0>>]

S4 == [scenario_id |-> "s4", test_name |-> <<"motor", "endurance">>,
       test_type |-> "durability", applicable_platforms |-> <<"EV", "ICE">>,
       target_systems |-> <<"Powertrain">>, target_components |-> <<"Motor">>,
       regulatory_standards |-> <<"ISO_8854">>,
       historical_results |-> <<[passed |-> FALSE]>>,
       embedding |-> <<0, 0>>, risk_level |-> "low"]

\* Only the identifier, the name and the test type: every optional key missing.
S5 == [scenario_id |-> "s5", test_name |-> <<"misc">>, test_type |-> "safety"]

\* As S4, with an embedding of another dimension and an empty history.
S6 == [scenario_id |-> "s6", test_name |-> <<"motor", "endurance">>,
       test_type |-> "durability", applicable_platforms |-> <<"EV", "ICE">>,
       target_systems |-> <<"Powertrain">>, target_components |-> <<"Motor">>,
       regulatory_standards |-> <<"ISO_8854">>,
       historical_results |-> <<[passed |-> FALSE]>>,
       embedding |-> <<1, 0, 0>>]

ScenarioPool == {S1, S2, S3, S4, S5, S6}

\* The batches: lists of at most max scenarios of a pool, with distinct
\* identifiers.
Batches(pool, max) ==
    UNION {{b \in [1..n -> pool] :
               \A i, j \in 1..n : i # j => b[i].scenario_id # b[j].scenario_id}
           : n \in 0..max}

Q0 == <<>>

Q1 == [platform |-> "EV", systems |-> <<"Battery">>]

Q2 == [platform |-> "EV", systems |-> <<"Battery", "Powertrain">>,
       components |-> <<"HV_Battery", "Motor">>,
       description |-> <<"ev", "battery", "and", "motor">>]

Q3 == [platform |-> "ICE", systems |-> <<>>, components |-> <<"Motor">>,
       name |-> <<"motor">>, description |-> <<"endurance">>]

QueryPool == {Q0, Q1, Q2, Q3}

\* A candidate for the battery query that carries one of the standards the
\* EV/Battery entry of the rule table expects.
S7 == [scenario_id |-> "s7", test_name |-> <<"battery", "abuse">>,
       test_type |-> "safety", applicable_platforms |-> <<"EV">>,
       target_systems |-> <<"Battery", "Thermal">>,
       regulatory_standards |-> <<"UNECE_R100">>]

\* Candidates handed to compute_rules_score.
RulesCandidates == ScenarioPool \cup {S7}

\* A candidate with n recorded runs of which the first p passed.
History(n, p) == [historical_results |-> [i \in 1..n |-> [passed |-> i <= p]]]

\* Candidates handed to compute_historical_score: every history of at most max
\* runs up to the order of the runs, a candidate without the key, and a
\* history with a run that does not record its outcome.
HistoryPool(max) ==
    {History(n, p) : n \in 0..max, p \in 0..max} \cup
    {S5, [historical_results |-> <<[passed |-> TRUE], [run |-> 2]>>]}

\* Component and system lists handed to compute_graph_proximity.
ListPool == {<<>>, <<"A">>, <<"A", "B">>, <<"B", "C">>}

\* The graph metrics of a candidate handed to compute_graph_proximity.
GraphMetricsPool ==
    {<<>>, [degree |-> 3], [shortest_path_length |-> 0],
     [shortest_path_length |-> 2], [shortest_path_length |-> 7]}

\* As S1 and as S5 with names that share no word with theirs.
D1 == [S1 EXCEPT !.scenario_id = "d1", !.test_name = <<"cell", "abuse">>]

D5 == [S5 EXCEPT !.scenario_id = "d5", !.test_name = <<"other">>]

\* Scenarios handed to _compute_detailed_similarity.
DetailPool == ScenarioPool \cup {S7, D1, D5}

\* Vectors embedding_pipeline.encode_text may return (an external model).
EncodeOutputs == {<<1, 0>>, <<3, 4>>}

\* graph_data arguments of recommend: None (the empty dict stands for it) or
\* a dict from scenario id to graph metrics.
GraphDataPool ==
    {<<>>, [s1 |-> [shortest_path_length |-> 2], s4 |-> [degree |-> 3]]}

\* Vectors handed to cosine_similarity.
VectorPool == {<<1, 0>>, <<3, 4>>, <<-1, 0>>, <<0, 1>>, <<0, 0>>, <<1, 0, 0>>}

\* Sets handed to jaccard_similarity.
SetPool == SUBSET {"A", "B", "C"}

\* Rows of the matrix and query vectors handed to find_nearest_neighbors, all
\* of one dimension.
RowPool == {<<0, 0>>, <<3, 0>>, <<0, 4>>, <<3, 4>>}

Matrices(max) == UNION {[1..n -> RowPool] : n \in 0..max}

Metrics == {"cosine", "euclidean", "manhattan", "chebyshev"}

\* Candidates of diversity_reranking with their embeddings.
R1 == [item |-> "r1", relevance |-> One, embedding |-> <<1, 0>>]

R2 == [item |-> "r2", relevance |-> Rat(9, 10), embedding |-> <<0, 0>>]

R3 == [item |-> "r3", relevance |-> Rat(9, 10), embedding |-> <<3, 4>>]

R4 == [item |-> "r4", relevance |-> Half, embedding |-> <<0, 1>>]

R5 == [item |-> "r5", relevance |-> Rat(1, 10), embedding |-> <<-1, 0>>]

RerankPool == {R1, R2, R3, R4, R5}

\* The ranked lists: at most max candidates of the pool, each at most once.
RankedLists(max) ==
    UNION {{c \in [1..n -> RerankPool] : \A i, j \in 1..n : i # j => c[i] # c[j]}
           : n \in 0..max}

Lambdas == {Zero, Half, One}

\* The two values scipy builds return for the cosine of a zero-norm vector.
ZeroNormOutcomes == {NaN, One}

(***************************************************************************)
(* State machine.                                                          *)
(***************************************************************************)
NoDetector == <<>>

NoCall == [op |-> "none"]

Init ==
    /\ HDBSCAN_AVAILABLE \in BOOLEAN
    /\ zero_norm_cosine \in ZeroNormOutcomes
    /\ recommender \in {TestRecommender_init(p) : p \in BOOLEAN}
    /\ detector = NoDetector
    /\ scenarios \in Batches(ScenarioPool, MaxBatch)
    /\ last = NoCall

\* The calls are synchronous: a call is made when no result is pending, and
\* the caller takes the result (Return) before the next call.
Return ==
    /\ last.op # "none"
    /\ last.op = "rerank" => last.pc = "done"
    /\ last' = NoCall
    /\ UNCHANGED <<HDBSCAN_AVAILABLE, zero_norm_cosine, recommender, detector, scenarios>>

\* recommender.recommend(query_spec, scenarios, top_k, graph_data)
Recommend(query_spec, top_k, graph_data) ==
    \E query_embedding \in
           (IF recommender.embedding_pipeline /\ "description" \in DOMAIN query_spec
            THEN EncodeOutputs ELSE {<<>>}) :
        /\ last.op = "none"
        /\ last' = [op |-> "recommend", query_spec |-> query_spec, top_k |-> top_k,
                    graph_data |-> graph_data, query_embedding |-> query_embedding]
                   @@ recommend(query_spec, scenarios, top_k, graph_data,
                                query_embedding, zero_norm_cosine)
        /\ UNCHANGED <<HDBSCAN_AVAILABLE, zero_norm_cosine, recommender, detector, scenarios>>

NextRecommend ==
    \/ \E query_spec \in QueryPool, top_k \in 0..MaxTopK, graph_data \in GraphDataPool :
           Recommend(query_spec, top_k, graph_data)
    \/ Return

\* The recommender alone.  What the detector's variables hold is irrelevant to
\* it, and so is the scipy build when there is no pipeline.
InitRecommend ==
    /\ HDBSCAN_AVAILABLE = TRUE
    /\ recommender \in {TestRecommender_init(p) : p \in BOOLEAN}
    /\ zero_norm_cosine \in (IF recommender.embedding_pipeline
                             THEN ZeroNormOutcomes ELSE {One})
    /\ detector = NoDetector
    /\ scenarios \in Batches(ScenarioPool \ {S2}, MaxCandidates)
    /\ last = NoCall

SpecRecommend == InitRecommend /\ [][NextRecommend]_vars

\* detector = DuplicateDetector(min_cluster_size, 1, similarity_threshold)
Construct(min_cluster_size, similarity_threshold) ==
    LET made == DuplicateDetector_init(HDBSCAN_AVAILABLE, min_cluster_size, 1,
                                       similarity_threshold)
    IN  /\ last.op = "none"
        /\ last' = [op |-> "construct", status |-> made.status]
        /\ detector' = IF made.status = "ok" THEN made.self ELSE detector
        /\ UNCHANGED <<HDBSCAN_AVAILABLE, zero_norm_cosine, recommender, scenarios>>

\* detector.detect_duplicates_by_embedding(scenarios)
DetectDuplicates ==
    /\ last.op = "none"
    /\ detector # NoDetector
    /\ \E cluster_labels \in
              (IF ReachesClustering(detector, scenarios)
               THEN ClusterLabelings(Len(ValidScenarios(scenarios)),
                                     detector.min_cluster_size)
               ELSE {<<>>}) :
           last' = [op |-> "detect", cluster_labels |-> cluster_labels]
                   @@ detect_duplicates_by_embedding(detector, scenarios, cluster_labels)
    /\ UNCHANGED <<HDBSCAN_AVAILABLE, zero_norm_cosine, recommender, detector, scenarios>>

\* detector.find_similar_pairs(scenarios, threshold)
FindSimilarPairs(threshold) ==
    /\ last.op = "none"
    /\ detector # NoDetector
    /\ last' = [op |-> "pairs", threshold |-> threshold]
               @@ find_similar_pairs(detector, scenarios, threshold)
    /\ UNCHANGED <<HDBSCAN_AVAILABLE, zero_norm_cosine, recommender, detector, scenarios>>

\* The similarity thresholds and cluster sizes detectors are built with.
Thresholds == {Rat(85, 100), Rat(95, 100)}

MinClusterSizes == {2, 3}

NextDetect ==
    \/ \E m \in MinClusterSizes, t \in Thresholds : Construct(m, t)
    \/ DetectDuplicates
    \/ \E t \in Thresholds : FindSimilarPairs(t)
    \/ Return

\* The detector alone: no pipeline, and the scipy build is irrelevant.
InitDetect ==
    /\ HDBSCAN_AVAILABLE \in BOOLEAN
    /\ zero_norm_cosine = One
    /\ recommender = TestRecommender_init(FALSE)
    /\ detector = NoDetector
    /\ scenarios \in Batches(ScenarioPool, MaxBatch)
    /\ last = NoCall

SpecDetect == InitDetect /\ [][NextDetect]_vars

\* cosine_similarity(vec1, vec2)
CosineSimilarity(vec1, vec2) ==
    /\ last.op = "none"
    /\ last' = [op |-> "cosine", vec1 |-> vec1, vec2 |-> vec2]
               @@ (IF ShapeError(vec1, vec2)
                   THEN [status |-> "ValueError"]
                   ELSE [status |-> "ok",
                         result |-> cosine_similarity(vec1, vec2, zero_norm_cosine)])
    /\ UNCHANGED <<HDBSCAN_AVAILABLE, zero_norm_cosine, recommender, detector, scenarios>>

\* jaccard_similarity(set1, set2)
JaccardSimilarity(set1, set2) ==
    /\ last.op = "none"
    /\ last' = [op |-> "jaccard", set1 |-> set1, set2 |-> set2,
                status |-> "ok", result |-> jaccard_similarity(set1, set2)]
    /\ UNCHANGED <<HDBSCAN_AVAILABLE, zero_norm_cosine, recommender, detector, scenarios>>

\* find_nearest_neighbors(query_vector, vectors, k, metric)
FindNearestNeighbors(query_vector, vectors, k, metric) ==
    /\ last.op = "none"
    /\ \E order \in Argsorts(MetricValues(query_vector, vectors, metric)) :
           last' = [op |-> "neighbors", query_vector |-> query_vector,
                    vectors |-> vectors, k |-> k, metric |-> metric]
                   @@ find_nearest_neighbors(query_vector, vectors, k, metric, order)
    /\ UNCHANGED <<HDBSCAN_AVAILABLE, zero_norm_cosine, recommender, detector, scenarios>>

NextSimilarity ==
    \/ \E vec1 \in VectorPool, vec2 \in VectorPool : CosineSimilarity(vec1, vec2)
    \/ \E set1 \in SetPool, set2 \in SetPool : JaccardSimilarity(set1, set2)
    \/ \E query_vector \in RowPool, vectors \in Matrices(MaxVectors), k \in 0..MaxK, metric \in Metrics :
           FindNearestNeighbors(query_vector, vectors, k, metric)
    \/ Return

\* The similarity primitives alone.
InitSimilarity ==
    /\ HDBSCAN_AVAILABLE = TRUE
    /\ zero_norm_cosine \in ZeroNormOutcomes
    /\ recommender = TestRecommender_init(FALSE)
    /\ detector = NoDetector
    /\ scenarios = <<>>
    /\ last = NoCall

SpecSimilarity == InitSimilarity /\ [][NextSimilarity]_vars

\* diversity_reranking(candidates, embeddings, lambda_param, k): the call up to
\* the while loop.
DiversityReranking(ranked, lambda_param, k) ==
    LET candidates == [i \in DOMAIN ranked |-> <<ranked[i].item, ranked[i].relevance>>]
        embeddings == [i \in DOMAIN ranked |-> ranked[i].embedding]
    IN  /\ last.op = "none"
        /\ last' = DiversityEnter(candidates, embeddings, lambda_param, k)
                   @@ [op |-> "rerank", candidates |-> candidates,
                       embeddings |-> embeddings, lambda_param |-> lambda_param, k |-> k]
        /\ UNCHANGED <<HDBSCAN_AVAILABLE, zero_norm_cosine, recommender, detector, scenarios>>

\* One iteration of the while loop of diversity_reranking.
RerankIterate ==
    /\ last.op = "rerank"
    /\ last.pc = "while"
    /\ DiversityLoopCondition(last)
    /\ last.iterations < MaxIterations
    /\ last' = DiversityIterate(last, zero_norm_cosine)
    /\ UNCHANGED <<HDBSCAN_AVAILABLE, zero_norm_cosine, recommender, detector, scenarios>>

\* The while condition is false: diversity_reranking returns selected.
RerankExit ==
    /\ last.op = "rerank"
    /\ last.pc = "while"
    /\ ~DiversityLoopCondition(last)
    /\ last' = DiversityExit(last)
    /\ UNCHANGED <<HDBSCAN_AVAILABLE, zero_norm_cosine, recommender, detector, scenarios>>

NextRerank ==
    \/ \E ranked \in RankedLists(MaxRerank), lambda_param \in Lambdas, k \in 0..MaxK :
           DiversityReranking(ranked, lambda_param, k)
    \/ RerankIterate
    \/ RerankExit
    \/ Return

\* The re-ranker alone.
InitRerank == InitSimilarity

SpecRerank == InitRerank /\ [][NextRerank]_vars

\* recommender.compute_rules_score(query_spec, candidate)
ComputeRulesScore(query_spec, candidate) ==
    LET r == compute_rules_score(query_spec, candidate)
    IN  /\ last.op = "none"
        /\ last' = [op |-> "rules", query_spec |-> query_spec, candidate |-> candidate,
                    status |-> "ok", score |-> r[1], rules_fired |-> r[2]]
        /\ UNCHANGED <<HDBSCAN_AVAILABLE, zero_norm_cosine, recommender, detector, scenarios>>

\* recommender.compute_historical_score(candidate)
ComputeHistoricalScore(candidate) ==
    /\ last.op = "none"
    /\ last' = [op |-> "historical", candidate |-> candidate, status |-> "ok",
                result |-> compute_historical_score(candidate)]
    /\ UNCHANGED <<HDBSCAN_AVAILABLE, zero_norm_cosine, recommender, detector, scenarios>>

\* recommender.compute_graph_proximity(query_components, candidate_components,
\*                                     query_systems, candidate_systems, graph_data)
ComputeGraphProximity(query_components, candidate_components, query_systems, candidate_systems, graph_data) ==
    /\ last.op = "none"
    /\ last' = [op |-> "graph", query_components |-> query_components,
                candidate_components |-> candidate_components,
                query_systems |-> query_systems,
                candidate_systems |-> candidate_systems,
                graph_data |-> graph_data, status |-> "ok",
                result |-> compute_graph_proximity(query_components, candidate_components,
                                                   query_systems, candidate_systems,
                                                   graph_data)]
    /\ UNCHANGED <<HDBSCAN_AVAILABLE, zero_norm_cosine, recommender, detector, scenarios>>

\* detector._compute_detailed_similarity(scenario1, scenario2)
ComputeDetailedSimilarity(scenario1, scenario2) ==
    /\ last.op = "none"
    /\ detector # NoDetector
    /\ last' = [op |-> "detailed", scenario1 |-> scenario1, scenario2 |-> scenario2,
                status |-> "ok",
                result |-> compute_detailed_similarity(scenario1, scenario2)]
    /\ UNCHANGED <<HDBSCAN_AVAILABLE, zero_norm_cosine, recommender, detector, scenarios>>

NextSignals ==
    \/ \E query_spec \in QueryPool, candidate \in RulesCandidates :
           ComputeRulesScore(query_spec, candidate)
    \/ \E candidate \in HistoryPool(MaxHistory) : ComputeHistoricalScore(candidate)
    \/ \E qc \in ListPool, cc \in ListPool, qs \in ListPool, cs \in ListPool, g \in GraphMetricsPool :
           ComputeGraphProximity(qc, cc, qs, cs, g)
    \/ \E scenario1 \in DetailPool, scenario2 \in DetailPool :
           ComputeDetailedSimilarity(scenario1, scenario2)
    \/ Return

\* The scoring signals alone, on a recommender without pipeline and a detector
\* built with its default parameters.
InitSignals ==
    /\ HDBSCAN_AVAILABLE = TRUE
    /\ zero_norm_cosine = One
    /\ recommender = TestRecommender_init(FALSE)
    /\ detector = DuplicateDetector_init(TRUE, 2, 1, Rat(85, 100)).self
    /\ scenarios = <<>>
    /\ last = NoCall

SpecSignals == InitSignals /\ [][NextSignals]_vars

(***************************************************************************)
(* Two callers on the same instances and the same input records.  Here     *)
(* `scenarios` holds the records the callers share, by reference as Python *)
(* passes them: the scenario batch, and the candidate list with its        *)
(* embeddings for the re-ranker; `last` holds the call each caller has in  *)
(* progress.  A call starts (Begin), runs in steps that read the shared    *)
(* records as they are at that moment, and ends with its result, which the *)
(* caller then takes (Collect).                                            *)
(***************************************************************************)
Callers == {1, 2}

SharedInputs(batch, ranked) ==
    [batch |-> batch,
     candidates |-> [i \in DOMAIN ranked |-> <<ranked[i].item, ranked[i].relevance>>],
     embeddings |-> [i \in DOMAIN ranked |-> ranked[i].embedding]]

\* Scenarios of the shared batches, and the shared ranked lists.
SharedPool == {S1, S2, S4}

SharedRanked == {<<R1, R2, R4, R5>>, <<R1, R4, R5>>}

\* Faulty variant of InputsAfter: recommend and the detector's two calls sort
\* the batch they were handed in place.
InputsAfter_SortsBatch(op, inputs) ==
    IF op = "rerank" THEN inputs ELSE [inputs EXCEPT !.batch = Reverse(@)]

\* Faulty variant of InputsAfter: the re-ranker overwrites the relevance of
\* the candidates it was handed.
InputsAfter_RescoresCandidates(op, inputs) ==
    IF op = "rerank"
    THEN [inputs EXCEPT !.candidates = [i \in DOMAIN @ |-> <<@[i][1], Half>>]]
    ELSE inputs

\* The shared records as one step of a call leaves them.  No statement of the
\* four functions assigns to, appends to, removes from or sorts an object it
\* was handed: recommend reads the candidates with .get and sorts the list of
\* recommendations it built; detect_duplicates_by_embedding appends the
\* scenarios to its own valid_scenarios and sorts its own clusters;
\* find_similar_pairs sorts its own pairs; diversity_reranking slices
\* candidates, appends to its own selected and removes from its own
\* remaining.  np.array(...) of an embedding is bound to a local name.
InputsAfter(op, inputs) == inputs

\* The calls a caller makes.
SharedCalls ==
    {[op |-> "recommend", query_spec |-> q, top_k |-> MaxShared] : q \in {Q1, Q3}}
    \cup {[op |-> "detect"], [op |-> "pairs", threshold |-> Rat(85, 100)]}
    \cup {[op |-> "rerank", lambda_param |-> Half, k |-> k] : k \in {2, 3}}

\* A caller is inside a call that has not produced its result yet.
MidCall(t) == last.call[t].op # "none" /\ last.call[t].pc # "done"

\* The call starts.  `given` remembers the shared records as they were handed
\* over and `overlaps` whether the other caller was inside a call then.
Begin(t, call) ==
    /\ last.op = "callers"
    /\ last.call[t].op = "none"
    /\ last' = [last EXCEPT !.call[t] =
                   call @@ [pc |-> "running", given |-> scenarios,
                            overlaps |-> \E u \in Callers \ {t} : MidCall(u)]]
    /\ UNCHANGED <<HDBSCAN_AVAILABLE, zero_norm_cosine, recommender, detector, scenarios>>

\* recommender.recommend(query_spec, batch, top_k) runs to its return.
FinishRecommend(t) ==
    /\ last.op = "callers"
    /\ last.call[t].op = "recommend"
    /\ last.call[t].pc = "running"
    /\ last' = [last EXCEPT !.call[t] =
                   [pc |-> "done"]
                   @@ recommend(@.query_spec, scenarios.batch, @.top_k, <<>>, <<>>,
                                zero_norm_cosine)
                   @@ @]
    /\ scenarios' = InputsAfter("recommend", scenarios)
    /\ UNCHANGED <<HDBSCAN_AVAILABLE, zero_norm_cosine, recommender, detector>>

\* detector.detect_duplicates_by_embedding(batch) runs to its return.
FinishDetect(t) ==
    /\ last.op = "callers"
    /\ last.call[t].op = "detect"
    /\ last.call[t].pc = "running"
    /\ \E cluster_labels \in
              (IF ReachesClustering(detector, scenarios.batch)
               THEN ClusterLabelings(Len(ValidScenarios(scenarios.batch)),
                                     detector.min_cluster_size)
               ELSE {<<>>}) :
           last' = [last EXCEPT !.call[t] =
                       [pc |-> "done"]
                       @@ detect_duplicates_by_embedding(detector, scenarios.batch,
                                                         cluster_labels)
                       @@ @]
    /\ scenarios' = InputsAfter("detect", scenarios)
    /\ UNCHANGED <<HDBSCAN_AVAILABLE, zero_norm_cosine, recommender, detector>>

\* detector.find_similar_pairs(batch, threshold) runs to its return.
FinishPairs(t) ==
    /\ last.op = "callers"
    /\ last.call[t].op = "pairs"
    /\ last.call[t].pc = "running"
    /\ last' = [last EXCEPT !.call[t] =
                   [pc |-> "done"]
                   @@ find_similar_pairs(detector, scenarios.batch, @.threshold)
                   @@ @]
    /\ scenarios' = InputsAfter("pairs", scenarios)
    /\ UNCHANGED <<HDBSCAN_AVAILABLE, zero_norm_cosine, recommender, detector>>

\* diversity_reranking(candidates, embeddings, lambda_param, k) up to the
\* while loop.
EnterRerank(t) ==
    /\ last.op = "callers"
    /\ last.call[t].op = "rerank"
    /\ last.call[t].pc = "running"
    /\ last' = [last EXCEPT !.call[t] =
                   DiversityEnter(scenarios.candidates, scenarios.embeddings,
                                  @.lambda_param, @.k)
                   @@ @]
    /\ scenarios' = InputsAfter("rerank", scenarios)
    /\ UNCHANGED <<HDBSCAN_AVAILABLE, zero_norm_cosine, recommender, detector>>

\* One iteration of the while loop, on the lists as they are now.
IterateRerank(t) ==
    /\ last.op = "callers"
    /\ last.call[t].op = "rerank"
    /\ last.call[t].pc = "while"
    /\ DiversityLoopCondition(last.call[t])
    /\ last.call[t].iterations < MaxIterations
    /\ last' = [last EXCEPT !.call[t] =
                   DiversityIterate([@ EXCEPT !.candidates = scenarios.candidates,
                                              !.embeddings = scenarios.embeddings],
                                    zero_norm_cosine)]
    /\ scenarios' = InputsAfter("rerank", scenarios)
    /\ UNCHANGED <<HDBSCAN_AVAILABLE, zero_norm_cosine, recommender, detector>>

\* The while condition is false: diversity_reranking returns selected.
ExitRerank(t) ==
    /\ last.op = "callers"
    /\ last.call[t].op = "rerank"
    /\ last.call[t].pc = "while"
    /\ ~DiversityLoopCondition(last.call[t])
    /\ last' = [last EXCEPT !.call[t] = DiversityExit(@)]
    /\ UNCHANGED <<HDBSCAN_AVAILABLE, zero_norm_cosine, recommender, detector, scenarios>>

\* The caller takes the result.
Collect(t) ==
    /\ last.op = "callers"
    /\ last.call[t].op # "none"
    /\ last.call[t].pc = "done"
    /\ last' = [last EXCEPT !.call[t] = NoCall]
    /\ UNCHANGED <<HDBSCAN_AVAILABLE, zero_norm_cosine, recommender, detector, scenarios>>

NextShared ==
    \/ \E t \in Callers, call \in SharedCalls : Begin(t, call)
    \/ \E t \in Callers : FinishRecommend(t)
    \/ \E t \in Callers : FinishDetect(t)
    \/ \E t \in Callers : FinishPairs(t)
    \/ \E t \in Callers : EnterRerank(t)
    \/ \E t \in Callers : IterateRerank(t)
    \/ \E t \in Callers : ExitRerank(t)
    \/ \E t \in Callers : Collect(t)

\* One recommender and one detector with its default parameters, shared by the
\* callers together with the input records.
InitShared ==
    /\ HDBSCAN_AVAILABLE = TRUE
    /\ zero_norm_cosine \in ZeroNormOutcomes
    /\ recommender = TestRecommender_init(FALSE)
    /\ detector = DuplicateDetector_init(TRUE, 2, 1, Rat(85, 100)).self
    /\ scenarios \in {SharedInputs(b, r) :
                         b \in Batches(SharedPool, MaxShared), r \in SharedRanked}
    /\ last = [op |-> "callers", call |-> [t \in Callers |-> NoCall]]

SpecShared == InitShared /\ [][NextShared]_vars

Next ==
    \/ \E query_spec \in QueryPool, top_k \in 0..MaxTopK, graph_data \in GraphDataPool :
           Recommend(query_spec, top_k, graph_data)
    \/ \E m \in MinClusterSizes, t \in Thresholds : Construct(m, t)
    \/ DetectDuplicates
    \/ \E t \in Thresholds : FindSimilarPairs(t)
    \/ \E vec1 \in VectorPool, vec2 \in VectorPool : CosineSimilarity(vec1, vec2)
    \/ \E set1 \in SetPool, set2 \in SetPool : JaccardSimilarity(set1, set2)
    \/ \E query_vector \in RowPool, vectors \in Matrices(MaxVectors), k \in 0..MaxK, metric \in Metrics :
           FindNearestNeighbors(query_vector, vectors, k, metric)
    \/ \E ranked \in RankedLists(MaxRerank), lambda_param \in Lambdas, k \in 0..MaxK :
           DiversityReranking(ranked, lambda_param, k)
    \/ RerankIterate
    \/ RerankExit
    \/ \E query_spec \in QueryPool, candidate \in RulesCandidates :
           ComputeRulesScore(query_spec, candidate)
    \/ \E candidate \in HistoryPool(MaxHistory) : ComputeHistoricalScore(candidate)
    \/ \E qc \in ListPool, cc \in ListPool, qs \in ListPool, cs \in ListPool, g \in GraphMetricsPool :
           ComputeGraphProximity(qc, cc, qs, cs, g)
    \/ \E scenario1 \in DetailPool, scenario2 \in DetailPool :
           ComputeDetailedSimilarity(scenario1, scenario2)
    \/ \E t \in Callers, call \in SharedCalls : Begin(t, call)
    \/ \E t \in Callers : FinishRecommend(t)
    \/ \E t \in Callers : FinishDetect(t)
    \/ \E t \in Callers : FinishPairs(t)
    \/ \E t \in Callers : EnterRerank(t)
    \/ \E t \in Callers : IterateRerank(t)
    \/ \E t \in Callers : ExitRerank(t)
    \/ \E t \in Callers : Collect(t)
    \/ Return

Spec == Init /\ [][Next]_vars

(***************************************************************************)
(* Properties of recommend (checked under SpecRecommend).                  *)
(***************************************************************************)
RecommendDone == last.op = "recommend"

RecommendOk == last.op = "recommend" /\ last.status = "ok"

\* Position of the candidate with this identifier in the input list.
PositionOf(id) == CHOOSE i \in DOMAIN scenarios : scenarios[i].scenario_id = id

SameScore(a, b) == a = b

\* The semantic signal of a recommendation: 0 unless one was computed.
SemanticOf(rec) == Get(rec.explain.scores, "semantic", Zero)

\* C1: the list recommend returns is ordered by non-increasing final score, and
\* recommendations of equal final score keep the order of their candidates in
\* the input list.
C1_SortedStable ==
    RecommendOk =>
        \A i, j \in DOMAIN last.result :
            i < j =>
                /\ RGe(last.result[i].score, last.result[j].score)
                /\ SameScore(last.result[i].score, last.result[j].score)
                       => PositionOf(last.result[i].scenario_id)
                              < PositionOf(last.result[j].scenario_id)

MinOf(a, b) == IF a < b THEN a ELSE b

\* What C2 says of a returned list: min(topK, N) recommendations, each for a
\* distinct input candidate.
C2_ExactCount ==
    /\ last.status = "ok"
    /\ Len(last.result) = MinOf(last.top_k, Len(scenarios))
    /\ \A i \in DOMAIN last.result :
           \E c \in DOMAIN scenarios : scenarios[c].scenario_id = last.result[i].scenario_id
    /\ \A i, j \in DOMAIN last.result :
           i # j => last.result[i].scenario_id # last.result[j].scenario_id

\* C2 as written: for every query, candidate list and topK >= 0, recommend
\* returns without error exactly min(topK, N) recommendations of distinct
\* input candidates.
C2_Original == RecommendDone => C2_ExactCount

\* Every candidate embedding that is compared has the query embedding's length.
C2_DimensionsAgree ==
    \A c \in DOMAIN scenarios :
        (last.query_embedding # <<>> /\ "embedding" \in DOMAIN scenarios[c])
            => Len(scenarios[c].embedding) = Len(last.query_embedding)

\* C2 (amended): whenever no candidate embedding differs in length from the
\* query embedding computed for the call, recommend returns without error
\* exactly min(topK, N) recommendations, each for a distinct input candidate.
C2_CountWhenDimensionsAgree ==
    (RecommendDone /\ C2_DimensionsAgree) => C2_ExactCount

\* C2 witness: a scored call with a query embedding, topK above the candidate
\* count, and every candidate returned.
C2_Witness ==
    /\ RecommendOk
    /\ last.query_embedding # <<>>
    /\ Len(scenarios) >= 2
    /\ last.top_k > Len(scenarios)
    /\ Len(last.result) = Len(scenarios)

\* C3: the final score equals 0.4*semantic + 0.3*graph + 0.2*rules +
\* 0.1*historical, the four weights sum to exactly 1, and the final score lies
\* in [0,1].
C3_WeightedSumInUnit ==
    RecommendOk =>
        /\ RAdd(RAdd(RAdd(recommender.weights.semantic, recommender.weights.graph),
                     recommender.weights.rules),
                recommender.weights.historical) = One
        /\ \A i \in DOMAIN last.result :
               LET r == last.result[i]
                   sc == r.explain.scores
               IN  /\ r.score = RAdd(RAdd(RAdd(RMul(Rat(4, 10), SemanticOf(r)),
                                               RMul(Rat(3, 10), sc.graph)),
                                          RMul(Rat(2, 10), sc.rules)),
                                     RMul(Rat(1, 10), sc.historical))
                   /\ InUnit(r.score)

\* C4: each per-signal score computed by recommend (semantic, graph, rules,
\* historical) lies in [0,1].
C4_SignalsInUnit ==
    RecommendOk =>
        \A i \in DOMAIN last.result :
            LET sc == last.result[i].explain.scores
            IN  \A k \in DOMAIN sc : InUnit(sc[k])

\* The candidate a recommendation was computed for.
CandidateOf(rec) == scenarios[PositionOf(rec.scenario_id)]

IsMissingOrEmpty(d, k) == Get(d, k, <<>>) = <<>>

\* C5: recommend never raises because of a missing or empty optional field,
\* and the affected signal takes its default: semantic 0 without an embedding,
\* graph 0.5 when nothing is comparable, historical 0.5 without history; the
\* candidate still gets its recommendation.
C5_DefensiveDefaults ==
    RecommendDone =>
        /\ last.status # "ok" =>
               \E c \in DOMAIN scenarios :
                   /\ "embedding" \in DOMAIN scenarios[c]
                   /\ Len(scenarios[c].embedding) # Len(last.query_embedding)
        /\ (last.status = "ok" /\ last.top_k >= Len(scenarios)) =>
               \A c \in DOMAIN scenarios :
                   \E i \in DOMAIN last.result :
                       last.result[i].scenario_id = scenarios[c].scenario_id
        /\ last.status = "ok" =>
               \A i \in DOMAIN last.result :
                   LET r == last.result[i]
                       sc == r.explain.scores
                       cand == CandidateOf(r)
                       q == last.query_spec
                       hint == Get(last.graph_data, cand.scenario_id, <<>>)
                   IN  /\ "embedding" \notin DOMAIN cand =>
                              /\ "semantic" \notin DOMAIN sc
                              /\ r.score = RAdd(RAdd(RMul(Rat(3, 10), sc.graph),
                                                     RMul(Rat(2, 10), sc.rules)),
                                                RMul(Rat(1, 10), sc.historical))
                       /\ ( /\ IsMissingOrEmpty(q, "components")
                               \/ IsMissingOrEmpty(cand, "target_components")
                            /\ IsMissingOrEmpty(q, "systems")
                               \/ IsMissingOrEmpty(cand, "target_systems")
                            /\ "shortest_path_length" \notin DOMAIN hint )
                              => sc.graph = Half
                       /\ IsMissingOrEmpty(cand, "historical_results")
                              => sc.historical = Half

\* C5 witness: with a query embedding at hand, a candidate that has none of
\* the optional fields is scored with the three defaults.
C5_Witness ==
    /\ RecommendOk
    /\ last.query_embedding # <<>>
    /\ \E i \in DOMAIN last.result :
           /\ DOMAIN CandidateOf(last.result[i]) = {"scenario_id", "test_name", "test_type"}
           /\ last.result[i].explain.scores
                  = [graph |-> Half, rules |-> Zero, historical |-> Half]
           /\ last.result[i].score = Rat(1, 5)

\* Embeddings of different lengths occur in the batch.
MixedDimensions(batch) ==
    \E i, j \in DOMAIN batch :
        /\ "embedding" \in DOMAIN batch[i]
        /\ "embedding" \in DOMAIN batch[j]
        /\ Len(batch[i].embedding) # Len(batch[j].embedding)

\* C10: an operation whose input batch contains embedding vectors of different
\* lengths fails for that call and produces no result.
C10_MixedDimensionsFail ==
    (RecommendDone /\ MixedDimensions(scenarios)) => last.status # "ok"

(***************************************************************************)
(* Properties of the duplicate detector (checked under SpecDetect).        *)
(***************************************************************************)
DetectOk == last.op = "detect" /\ last.status = "ok"

\* The call went through clustering: fit_predict returned labels.
Clustered == DetectOk /\ last.cluster_labels # <<>>

\* 0.4*executionCount + 0.3*passRate + 0.3*componentCount, the pass rate of a
\* scenario that was never executed counting as 0.5.
C6_Quality(s) ==
    LET h == Get(s, "historical_results", <<>>)
        passRate == IF h = <<>> THEN Half
                    ELSE Rat(Cardinality({i \in DOMAIN h : h[i].passed}), Len(h))
    IN  RAdd(RAdd(Rat(4 * Len(h), 10), RMul(Rat(3, 10), passRate)),
             Rat(3 * Cardinality(ToSet(Get(s, "target_components", <<>>))), 10))

\* C6: in every cluster returned by detectDuplicates the canonical member's
\* composite quality score is >= the score of every other member, and among
\* the members attaining the maximum the canonical is the first in cluster
\* order.
C6_CanonicalIsFirstMax ==
    DetectOk =>
        \A k \in DOMAIN last.result.clusters :
            LET cl == last.result.clusters[k]
            IN  \E p \in DOMAIN cl.scenarios :
                    /\ cl.scenarios[p].scenario_id = cl.canonical.scenario_id
                    /\ \A m \in DOMAIN cl.scenarios :
                           RGe(C6_Quality(cl.canonical), C6_Quality(cl.scenarios[m]))
                    /\ \A m \in 1..(p - 1) :
                           RLt(C6_Quality(cl.scenarios[m]), C6_Quality(cl.canonical))

\* C6 witness: a cluster in which two members tie for the maximum score and
\* the earlier one is the canonical.
C6_Witness ==
    /\ DetectOk
    /\ \E k \in DOMAIN last.result.clusters :
           LET cl == last.result.clusters[k]
           IN  \E i, j \in DOMAIN cl.scenarios :
                   /\ i < j
                   /\ cl.scenarios[i].scenario_id = cl.canonical.scenario_id
                   /\ C6_Quality(cl.scenarios[j]) = C6_Quality(cl.canonical)

\* The entries that list the scenario id as a duplicate in the group of the
\* cluster cluster_id.
ListedEntries(cluster_id, id) ==
    {d \in UNION {ToSet(last.result.duplicates[g].duplicates) :
                     g \in {x \in DOMAIN last.result.duplicates :
                               last.result.duplicates[x].cluster_id = cluster_id}} :
        d.scenario_id = id}

OverallToCanonical(cl, member) ==
    compute_detailed_similarity(cl.canonical, member).overall

\* C7: a non-canonical member of a cluster is listed as a confirmed duplicate
\* if and only if its weighted overall similarity to the cluster's canonical is
\* >= similarityThreshold, and its action label is "consolidate" if and only
\* if that similarity is > 0.95, otherwise "review".
C7_ListedIffAboveThreshold ==
    DetectOk =>
        \A k \in DOMAIN last.result.clusters :
            LET cl == last.result.clusters[k]
            IN  \A m \in DOMAIN cl.scenarios :
                    LET member == cl.scenarios[m]
                        overall == OverallToCanonical(cl, member)
                        entries == ListedEntries(cl.cluster_id, member.scenario_id)
                    IN  member.scenario_id # cl.canonical.scenario_id =>
                            /\ entries # {} <=> RGe(overall, detector.similarity_threshold)
                            /\ \A d \in entries :
                                   /\ d.recommendation \in {"consolidate", "review"}
                                   /\ d.recommendation = "consolidate"
                                          <=> RGt(overall, Rat(95, 100))

\* C7 witness: one cluster with a member listed for review at exactly the
\* threshold, a member listed for consolidation, and a member not listed.
C7_Witness ==
    /\ DetectOk
    /\ \E k \in DOMAIN last.result.clusters :
           LET cl == last.result.clusters[k]
               Label(m) == {d.recommendation :
                               d \in ListedEntries(cl.cluster_id, cl.scenarios[m].scenario_id)}
           IN  \E a, b, c \in DOMAIN cl.scenarios :
                   /\ Label(a) = {"review"}
                   /\ OverallToCanonical(cl, cl.scenarios[a]) = detector.similarity_threshold
                   /\ Label(b) = {"consolidate"}
                   /\ Label(c) = {}
                   /\ cl.scenarios[c].scenario_id # cl.canonical.scenario_id

\* The identifiers that appear in some DuplicateGroup of the result.
GroupedIds ==
    UNION {{last.result.duplicates[g].canonical_id}
           \cup {d.scenario_id : d \in ToSet(last.result.duplicates[g].duplicates)}
           : g \in DOMAIN last.result.duplicates}

\* The identifiers of the scenarios fit_predict labelled -1.
NoiseIds ==
    LET valid == ValidScenarios(scenarios)
    IN  {valid[i].scenario_id : i \in {x \in DOMAIN valid : last.cluster_labels[x] = -1}}

\* C8: no scenario that the clustering step labels as noise appears in any
\* DuplicateGroup, neither as canonical nor as a listed duplicate.
C8_NoiseNotGrouped ==
    Clustered => NoiseIds \cap GroupedIds = {}

\* C8 witness: a result with noise points beside a duplicate group.
C8_Witness ==
    /\ Clustered
    /\ NoiseIds # {}
    /\ GroupedIds # {}
    /\ Len(last.result.noise_points) = Cardinality(NoiseIds)

\* C9: constructing the detector without the clustering capability fails at
\* once, so no detector instance exists without the capability and
\* detectDuplicates never runs without it.
C9_NoDetectorWithoutHdbscan ==
    /\ detector # NoDetector => HDBSCAN_AVAILABLE
    /\ (last.op = "construct" /\ ~HDBSCAN_AVAILABLE) => last.status = "ImportError"
    /\ last.op = "detect" => HDBSCAN_AVAILABLE

\* C9 witness: a construction attempt without hdbscan ended with the error
\* and left no detector.
C9_Witness ==
    /\ ~HDBSCAN_AVAILABLE
    /\ last.op = "construct"
    /\ last.status = "ImportError"
    /\ detector = NoDetector

(***************************************************************************)
(* Properties of the similarity primitives (checked under SpecSimilarity). *)
(***************************************************************************)
CosineOk == last.op = "cosine" /\ last.status = "ok"

ZeroNorm(v) == Dot(v, v) = 0

\* C11: cosineSimilarity(a, b) is 0 whenever a or b has zero norm (never NaN
\* or an undefined value), and cosineSimilarity(v, v) is 1 when v has a
\* non-zero norm.
C11_ZeroNormGivesZero ==
    CosineOk =>
        /\ (ZeroNorm(last.vec1) \/ ZeroNorm(last.vec2)) => last.result = Zero
        /\ (last.vec1 = last.vec2 /\ ~ZeroNorm(last.vec1)) => last.result = One

JaccardDone == last.op = "jaccard"

\* C20: jaccard(A, B) = |A intersect B| / |A union B|, with 1 for two empty
\* sets and 0 for one empty and one non-empty set; hence jaccard(A, A) = 1,
\* jaccard of disjoint non-empty sets is 0, jaccard is symmetric and its value
\* lies in [0,1].
C20_JaccardDefinition ==
    JaccardDone =>
        LET A == last.set1
            B == last.set2
        IN  /\ last.status = "ok"
            /\ (A = {} /\ B = {}) => last.result = One
            /\ (A \cup B # {}) =>
                   last.result = Rat(Cardinality(A \cap B), Cardinality(A \cup B))
            /\ ((A = {}) # (B = {})) => last.result = Zero
            /\ A = B => last.result = One
            /\ (A # {} /\ B # {} /\ A \cap B = {}) => last.result = Zero
            /\ last.result = jaccard_similarity(B, A)
            /\ InUnit(last.result)

\* C20 witness: two sets that overlap in part, with similarity 1/3.
C20_Witness ==
    /\ JaccardDone
    /\ last.set1 = {"A", "B"}
    /\ last.set2 = {"B", "C"}
    /\ last.result = Rat(1, 3)

NeighborsDone == last.op = "neighbors"

SupportedMetrics == {"cosine", "euclidean", "manhattan"}

\* C18: kNearestNeighbors with a metric name other than cosine, euclidean or
\* manhattan fails for that call (ValueError in the code) and returns no
\* indices and no scores.
C18_UnknownMetricFails ==
    (NeighborsDone /\ last.metric \notin SupportedMetrics) =>
        /\ last.status = "ValueError"
        /\ "indices" \notin DOMAIN last
        /\ "scores" \notin DOMAIN last

\* C18 witness: a search with an unknown metric over a non-empty matrix, k > 0,
\* that ended with the error.
C18_Witness ==
    /\ NeighborsDone
    /\ last.metric = "chebyshev"
    /\ Len(last.vectors) >= 2
    /\ last.k >= 1
    /\ last.status = "ValueError"

\* Whether score a is strictly better than score b under the metric.
StrictlyBetter(metric, a, b) == IF metric = "cosine" THEN RGt(a, b) ELSE RLt(a, b)

\* C19: for a supported metric and N stored vectors, kNearestNeighbors returns
\* min(k, N) distinct indices with their scores; no vector left out is
\* strictly better than a returned one; the result is ordered best first.
C19_BestFirst ==
    (NeighborsDone /\ last.metric \in SupportedMetrics) =>
        LET N == Len(last.vectors)
            values == MetricValues(last.query_vector, last.vectors, last.metric)
        IN  /\ last.status = "ok"
            /\ Len(last.indices) = MinOf(last.k, N)
            /\ Len(last.scores) = Len(last.indices)
            /\ \A i \in DOMAIN last.indices :
                   /\ last.indices[i] \in 1..N
                   /\ last.scores[i] = values[last.indices[i]]
            /\ \A i, j \in DOMAIN last.indices : i # j => last.indices[i] # last.indices[j]
            /\ \A x \in 1..N : \A i \in DOMAIN last.indices :
                   x \notin ToSet(last.indices) =>
                       ~StrictlyBetter(last.metric, values[x], last.scores[i])
            /\ \A i, j \in DOMAIN last.scores :
                   i < j => ~StrictlyBetter(last.metric, last.scores[j], last.scores[i])

\* The same statement for a matrix with at least one row.
C19_BestFirstNonEmpty ==
    (NeighborsDone /\ last.vectors # <<>>) => C19_BestFirst

(***************************************************************************)
(* Properties of diversity_reranking (checked under SpecRerank).           *)
(***************************************************************************)
RerankLooping == last.op = "rerank" /\ last.pc = "while"

RerankDone == last.op = "rerank" /\ last.pc = "done"

\* The call went past the early return and came back from the loop.
RerankSelected == RerankDone /\ Len(last.candidates) > last.k

\* C12: every call of diversityRerank terminates: each iteration of the
\* selection loop selects one more candidate (so that the loop, which runs
\* while fewer than k are selected and an unselected candidate remains, ends
\* after at most k selections or when none remains).
C12_EachIterationSelects ==
    RerankLooping => Len(last.selected) = 1 + last.iterations

\* C12 on a scipy build that gives a number for a zero norm.
C12_WithoutNaN ==
    zero_norm_cosine # NaN => C12_EachIterationSelects

\* The greatest member of a non-empty set of floats; NaN when no member is
\* at least every other one.
MaxOf(values) ==
    IF \E m \in values : \A x \in values : RGe(m, x)
    THEN CHOOSE m \in values : \A x \in values : RGe(m, x)
    ELSE NaN

\* lambda * relevance + (1 - lambda) * (1 - maximum similarity to prior) for
\* candidate idx, prior being the positions selected before.
MarginalRelevance(idx, prior) ==
    LET sims == {cosine_similarity(last.embeddings[idx], last.embeddings[p],
                                   zero_norm_cosine) : p \in prior}
    IN  RAdd(RMul(last.lambda_param, last.candidates[idx][2]),
             RMul(RSub(One, last.lambda_param), RSub(One, MaxOf(sims))))

\* C13: when len(candidates) > k, diversityRerank returns exactly k items, no
\* candidate twice; the first is candidates[0], and each later one is the
\* not-yet-selected candidate that maximizes
\* lambda*relevance + (1-lambda)*(1 - maximum similarity to those selected).
C13_GreedySelection ==
    RerankSelected =>
        LET chosen == last.selected_indices
        IN  /\ Len(last.result) = last.k
            /\ Len(chosen) = Len(last.result)
            /\ \A n \in DOMAIN chosen : last.result[n] = last.candidates[chosen[n]]
            /\ \A n, m \in DOMAIN chosen : n # m => chosen[n] # chosen[m]
            /\ chosen[1] = 1
            /\ \A n \in 2..Len(chosen) :
                   LET prior == {chosen[m] : m \in 1..(n - 1)}
                   IN  \A j \in (DOMAIN last.candidates) \ prior :
                           RGe(MarginalRelevance(chosen[n], prior),
                               MarginalRelevance(j, prior))

\* C13 for k >= 1 where no embedding of the call has zero norm.
C13_WithoutZeroNorm ==
    (/\ RerankSelected
     /\ last.k >= 1
     /\ \A i \in DOMAIN last.embeddings : ~ZeroNorm(last.embeddings[i]))
        => C13_GreedySelection

\* C14: when len(candidates) <= k, diversityRerank returns the candidates
\* unchanged: the same items with the same scores in the same order, whatever
\* the embeddings and lambda.
C14_PassThrough ==
    (RerankDone /\ Len(last.candidates) <= last.k) =>
        /\ last.status = "ok"
        /\ last.result = last.candidates

\* C14 witness: two candidates that are not in relevance order, one of zero
\* norm, come back as they were with k = 2 and lambda = 1/2.
C14_Witness ==
    /\ RerankDone
    /\ Len(last.candidates) = 2
    /\ last.k = 2
    /\ last.lambda_param = Half
    /\ RLt(last.candidates[1][2], last.candidates[2][2])
    /\ \E i \in DOMAIN last.embeddings : ZeroNorm(last.embeddings[i])
    /\ last.result = last.candidates

\* The candidates are in non-increasing order of relevance.
RelevanceOrdered(cands) ==
    \A i, j \in DOMAIN cands : i < j => RGe(cands[i][2], cands[j][2])

\* C15: with lambda = 1.0 and len(candidates) > k, diversityRerank gives the
\* k highest-relevance candidates in non-increasing relevance order, whatever
\* the embeddings.  Stated for relevance-ordered candidates and k >= 1.
C15_PureRelevance ==
    (/\ RerankSelected
     /\ last.lambda_param = One
     /\ last.k >= 1
     /\ RelevanceOrdered(last.candidates))
        => /\ Len(last.result) = last.k
           /\ RelevanceOrdered(last.result)
           /\ \A i \in DOMAIN last.candidates :
                  i \notin ToSet(last.selected_indices) =>
                      \A n \in DOMAIN last.result :
                          RLe(last.candidates[i][2], last.result[n][2])

\* C15 where no embedding of the call has zero norm.
C15_WithoutZeroNorm ==
    (RerankSelected /\ \A i \in DOMAIN last.embeddings : ~ZeroNorm(last.embeddings[i]))
        => C15_PureRelevance

(***************************************************************************)
(* Further properties of the detector (checked under SpecDetect).          *)
(***************************************************************************)
PairsDone == last.op = "pairs"

\* The entries of the result for the scenarios at positions i and j of the
\* batch, in either order.
PairEntries(i, j) ==
    {n \in DOMAIN last.result :
        {last.result[n].scenario1_id, last.result[n].scenario2_id}
            = {scenarios[i].scenario_id, scenarios[j].scenario_id}}

PairOverall(i, j) == compute_detailed_similarity(scenarios[i], scenarios[j]).overall

\* C16: findSimilarPairs returns exactly one entry for each unordered pair of
\* distinct candidates whose detailed-similarity overall is >= threshold, no
\* entry for any other pair, and the entries in non-increasing order of
\* overall similarity.
C16_PairsAtOrAboveThreshold ==
    PairsDone =>
        /\ last.status = "ok"
        /\ \A i, j \in DOMAIN scenarios :
               i < j => Cardinality(PairEntries(i, j))
                            = (IF RGe(PairOverall(i, j), last.threshold) THEN 1 ELSE 0)
        /\ \A n \in DOMAIN last.result :
               \E i, j \in DOMAIN scenarios :
                   /\ i < j
                   /\ n \in PairEntries(i, j)
                   /\ last.result[n].similarity = PairOverall(i, j)
        /\ \A n, m \in DOMAIN last.result :
               n < m => RGe(last.result[n].similarity, last.result[m].similarity)

\* C16 witness: a result of several pairs of different similarity, one of
\* them exactly at the threshold, from a batch with a pair below it.
C16_Witness ==
    /\ PairsDone
    /\ last.status = "ok"
    /\ Len(last.result) >= 2
    /\ RGt(last.result[1].similarity, last.result[Len(last.result)].similarity)
    /\ last.result[Len(last.result)].similarity = last.threshold
    /\ \E i, j \in DOMAIN scenarios : i < j /\ RLt(PairOverall(i, j), last.threshold)

\* C17: detectDuplicates on a batch with fewer than minClusterSize candidates
\* returns an empty result (no clusters, no duplicate groups) and does not
\* raise.
C17_TooFewGivesEmpty ==
    (last.op = "detect" /\ Len(scenarios) < detector.min_cluster_size) =>
        /\ last.status = "ok"
        /\ last.result.clusters = <<>>
        /\ last.result.duplicates = <<>>

\* C17 witness: two candidates with embeddings of different lengths handed to
\* a detector with min_cluster_size 3 give the empty result.
C17_Witness ==
    /\ last.op = "detect"
    /\ Len(scenarios) = 2
    /\ detector.min_cluster_size = 3
    /\ Ragged(ValidScenarios(scenarios))
    /\ last.status = "ok"
    /\ last.result = [clusters |-> <<>>, duplicates |-> <<>>]

(***************************************************************************)
(* Properties of the scoring signals (checked under SpecSignals).          *)
(***************************************************************************)
RulesDone == last.op = "rules"

\* The battery query against the candidate with one expected standard.
BatteryQueryCase == RulesDone /\ last.query_spec = Q1 /\ last.candidate = S7

\* C21 as stated: for the query {platform EV, systems [Battery]} and the
\* candidate with platforms [EV], systems [Battery, Thermal] and standards
\* [UNECE_R100] the rules score is 0.3 + 0.2 + 0.4 * (1/2) = 0.7.
C21_BatteryQueryScore ==
    BatteryQueryCase =>
        last.score = RAdd(RAdd(Rat(3, 10), Rat(2, 10)), RMul(Rat(4, 10), Rat(1, 2)))

\* C21 amended: the EV/Battery entry expects three standards, so the
\* regulatory term is 0.4 * (1/3) and the rules score is 0.3 + 0.2 + 0.4/3 =
\* 19/30; the three rules that fire are the platform match, the regulatory
\* match on Battery and the system overlap of 1 of 1.
C21_BatteryQueryScoreThreeStandards ==
    BatteryQueryCase =>
        /\ last.score = RAdd(RAdd(Rat(3, 10), Rat(2, 10)), RMul(Rat(4, 10), Rat(1, 3)))
        /\ last.score = Rat(19, 30)
        /\ last.rules_fired = << <<"Platform match", "EV">>,
                                 <<"Regulatory match", "Battery", <<"UNECE_R100">>>>,
                                 <<"System overlap", 1, 1>> >>

C21_Witness ==
    /\ BatteryQueryCase
    /\ Len(last.rules_fired) = 3
    /\ RLt(last.score, Rat(7, 10))

DetailedDone == last.op = "detailed"

\* The two scenarios have the same component, system, platform and standards
\* sets and the same test type.
SameSetsAndType(a, b) ==
    /\ \A key \in {"target_components", "target_systems", "applicable_platforms", "regulatory_standards"} :
           ToSet(Get(a, key, <<>>)) = ToSet(Get(b, key, <<>>))
    /\ Get(a, "test_type", NoneVal) = Get(b, "test_type", NoneVal)

HistoricalDone == last.op = "historical"

\* The runs of the scored candidate, and how many of them record a pass.
RunsOf(candidate) == Get(candidate, "historical_results", <<>>)

PassesOf(candidate) ==
    Cardinality({i \in DOMAIN RunsOf(candidate) :
                    /\ "passed" \in DOMAIN RunsOf(candidate)[i]
                    /\ RunsOf(candidate)[i].passed})

GraphDone == last.op = "graph"

\* The path term of the graph signal: 1 - min(length / 5, 1) when the graph
\* metrics of the candidate give a shortest path length.
PathScores(graph_data) ==
    IF "shortest_path_length" \in DOMAIN graph_data
    THEN <<RSub(One, PyMin(Rat(graph_data.shortest_path_length, 5), One))>>
    ELSE <<>>

\* C24 as stated: the graph signal is the mean of jaccard(query components,
\* candidate components), jaccard(query systems, candidate systems), both with
\* the empty-set convention of the similarity primitive (1 for two empty
\* sets, 0 for one empty set), and of the path score when there is one.
C24_MeanWithEmptySetConvention ==
    GraphDone =>
        last.result =
            np_mean(<<jaccard_similarity(ToSet(last.query_components),
                                         ToSet(last.candidate_components)),
                      jaccard_similarity(ToSet(last.query_systems),
                                         ToSet(last.candidate_systems))>>
                    \o PathScores(last.graph_data))

\* C24 amended: an overlap term is computed only when both of its lists are
\* non-empty, and is then the Jaccard index of their sets; the graph signal
\* is the mean of the terms computed and of the path score when there is
\* one, and 0.5 when there is none of them.
C24_MeanOfComputedSubScores ==
    GraphDone =>
        LET components == IF last.query_components # <<>> /\ last.candidate_components # <<>>
                          THEN <<jaccard_similarity(ToSet(last.query_components),
                                                    ToSet(last.candidate_components))>>
                          ELSE <<>>
            systems == IF last.query_systems # <<>> /\ last.candidate_systems # <<>>
                       THEN <<jaccard_similarity(ToSet(last.query_systems),
                                                 ToSet(last.candidate_systems))>>
                       ELSE <<>>
            computed == components \o systems \o PathScores(last.graph_data)
        IN  /\ computed # <<>> => last.result = np_mean(computed)
            /\ computed = <<>> => last.result = Half
            /\ InUnit(last.result)

\* The query names no component, the candidate does, and the systems overlap
\* in part: the signal is the systems term alone.
C24_Witness ==
    /\ GraphDone
    /\ last.query_components = <<>>
    /\ last.candidate_components # <<>>
    /\ last.graph_data = <<>>
    /\ last.result = jaccard_similarity(ToSet(last.query_systems), ToSet(last.candidate_systems))
    /\ last.result = Rat(1, 3)

(***************************************************************************)
(* Properties of the detection results (checked under SpecDetect).         *)
(***************************************************************************)
\* C27: every result of detectDuplicates carries the three parts clusters,
\* duplicates and noise points, on the empty-input path and on the
\* fewer-than-minClusterSize path as well.
C27_ResultHasAllParts ==
    DetectOk => {"clusters", "duplicates", "noise_points"} \subseteq DOMAIN last.result

\* What does hold: the results of the clustering path carry the three parts,
\* the results of the two early returns carry clusters and duplicates only.
C27_PartsByPath ==
    DetectOk =>
        /\ {"clusters", "duplicates"} \subseteq DOMAIN last.result
        /\ "noise_points" \in DOMAIN last.result <=> Clustered

\* C28: the savings of a duplicate group depend only on the number n of its
\* listed duplicates: n * 10 * 0.8 hours, n * 5000 * 0.8 pounds and n tests
\* eliminated, whatever durations and costs the scenarios record.
C28_SavingsFromCountOnly ==
    DetectOk =>
        \A g \in DOMAIN last.result.duplicates :
            LET group == last.result.duplicates[g]
                n == Len(group.duplicates)
            IN  /\ group.potential_savings.time_saved_hours = RMul(Rat(n * 10, 1), Rat(8, 10))
                /\ group.potential_savings.cost_saved_gbp = RMul(Rat(n * 5000, 1), Rat(8, 10))
                /\ group.potential_savings.tests_eliminated = n

\* The scenario of the batch with this identifier.
ScenarioOf(id) == scenarios[PositionOf(id)]

\* A group whose canonical and whose duplicate record durations other than
\* the assumed 10 hours.
C28_Witness ==
    /\ DetectOk
    /\ \E g \in DOMAIN last.result.duplicates :
           LET group == last.result.duplicates[g]
           IN  /\ Get(ScenarioOf(group.canonical_id), "estimated_duration_hours", 10) = 24
               /\ \E d \in ToSet(group.duplicates) :
                      Get(ScenarioOf(d.scenario_id), "estimated_duration_hours", 10) = 12
               /\ group.potential_savings.time_saved_hours = Rat(8 * Len(group.duplicates), 1)

\* How often the scenario occurs among the members of the clusters and among
\* the noise points of the result.
Occurrences(scenario) ==
    Cardinality({km \in (DOMAIN last.result.clusters) \X (1..Len(scenarios)) :
                    /\ km[2] \in DOMAIN last.result.clusters[km[1]].scenarios
                    /\ last.result.clusters[km[1]].scenarios[km[2]] = scenario})
    + Cardinality({n \in DOMAIN last.result.noise_points :
                      last.result.noise_points[n] = scenario})

\* C29: in a result of the clustering path the clusters and the noise points
\* partition the scenarios that have an embedding; the size of a cluster is
\* the number of its members and its canonical is one of its members.
C29_ClustersAndNoisePartition ==
    Clustered =>
        LET valid == ValidScenarios(scenarios)
        IN  /\ \A i \in DOMAIN valid : Occurrences(valid[i]) = 1
            /\ \A k \in DOMAIN last.result.clusters :
                   LET cl == last.result.clusters[k]
                   IN  /\ ToSet(cl.scenarios) \subseteq ToSet(valid)
                       /\ cl.size = Len(cl.scenarios)
                       /\ cl.size = Cardinality(ToSet(cl.scenarios))
                       /\ cl.canonical \in ToSet(cl.scenarios)
            /\ ToSet(last.result.noise_points) \subseteq ToSet(valid)

\* A batch with a scenario without embedding, clustered into a cluster whose
\* canonical is not its first member and at least one noise point.
C29_Witness ==
    /\ Clustered
    /\ Len(ValidScenarios(scenarios)) < Len(scenarios)
    /\ last.result.noise_points # <<>>
    /\ \E k \in DOMAIN last.result.clusters :
           last.result.clusters[k].canonical # last.result.clusters[k].scenarios[1]

\* C30: every duplicate group lists at least one duplicate; each listed
\* duplicate is a member of the cluster the group was built from, the group's
\* canonical is that cluster's canonical, and the canonical is never listed
\* as a duplicate of itself.
C30_GroupsAreWellFormed ==
    DetectOk =>
        \A g \in DOMAIN last.result.duplicates :
            LET group == last.result.duplicates[g]
                source == {k \in DOMAIN last.result.clusters :
                              last.result.clusters[k].cluster_id = group.cluster_id}
            IN  /\ Len(group.duplicates) >= 1
                /\ Cardinality(source) = 1
                /\ \A k \in source :
                       LET cl == last.result.clusters[k]
                       IN  /\ group.canonical_id = cl.canonical.scenario_id
                           /\ \A d \in ToSet(group.duplicates) :
                                  /\ \E m \in DOMAIN cl.scenarios :
                                         cl.scenarios[m].scenario_id = d.scenario_id
                                  /\ d.scenario_id # group.canonical_id

\* Two groups in one result, one of them from a cluster with a member that
\* is not listed.
C30_Witness ==
    /\ DetectOk
    /\ \E g \in DOMAIN last.result.duplicates :
           \E k \in DOMAIN last.result.clusters :
               /\ last.result.clusters[k].cluster_id = last.result.duplicates[g].cluster_id
               /\ Len(last.result.duplicates[g].duplicates) + 1 < last.result.clusters[k].size

Outcome(call) ==
    [status |-> Get(call, "status", "running"), result |-> Get(call, "result", <<>>)]

\* The re-ranker run without interruption from the state st on.
RECURSIVE RerankAlone(_, _)
RerankAlone(st, zn) ==
    IF st.pc = "done" THEN st
    ELSE IF ~DiversityLoopCondition(st) THEN DiversityExit(st)
    ELSE IF st.iterations >= MaxIterations THEN st
    ELSE RerankAlone(DiversityIterate(st, zn), zn)

\* The outcomes the call has when it runs alone on the records it was given
\* (one for each labelling the clusterer may return, for a detection).
AloneOutcomes(call) ==
    CASE call.op = "recommend" ->
             {Outcome(recommend(call.query_spec, call.given.batch, call.top_k,
                                <<>>, <<>>, zero_norm_cosine))}
      [] call.op = "pairs" ->
             {Outcome(find_similar_pairs(detector, call.given.batch, call.threshold))}
      [] call.op = "detect" ->
             {Outcome(detect_duplicates_by_embedding(detector, call.given.batch, l)) :
                 l \in (IF ReachesClustering(detector, call.given.batch)
                        THEN ClusterLabelings(Len(ValidScenarios(call.given.batch)),
                                              detector.min_cluster_size)
                        ELSE {<<>>})}
      [] call.op = "rerank" ->
             {Outcome(RerankAlone(DiversityEnter(call.given.candidates,
                                                 call.given.embeddings,
                                                 call.lambda_param, call.k),
                                  zero_norm_cosine))}

CallOver(t) == last.op = "callers" /\ last.call[t].op # "none" /\ last.call[t].pc = "done"

====
